---- MODULE Spec2Model ----
(***************************************************************************)
(* Model of claude-conversation-search: the JSONL parser, the tantivy      *)
(* index writer, the cache manager (fingerprint sidecar), the advisory     *)
(* index lock and the front-end operations (CLI rebuild / vacuum / status  *)
(* / cache clear / auto-index + search, MCP reindex and session refresh)   *)
(* that drive them.                                                        *)
(*                                                                         *)
(* Strings that the code splits or compares by prefix (session ids) are    *)
(* sequences of one-character strings, so that split('-') and starts_with  *)
(* are computed the way the code computes them.                            *)
(***************************************************************************)
EXTENDS Integers, Naturals, Sequences, FiniteSets, Bags, TLC

(***************************************************************************)
(* Bounds of the model.                                                    *)
(***************************************************************************)
\* operations one process starts in a behaviour
MaxOps == 2
\* writes / deletions of log files by the assistant that produces them
MaxEnvWrites == 2

\* shared/search.rs:56
MAX_SESSION_MESSAGES == 5000

Procs == {"p1", "p2"}

\* log files under <claude_dir>/projects, in the order glob yields them
FileOrder == <<"f1", "f2">>
Files == {FileOrder[i] : i \in 1..Len(FileOrder)}

NoFile == [absent |-> TRUE]
None == "none"

(***************************************************************************)
(* Session ids: "aabbccdd-11", "aabbccdd-22" (same first hyphen-separated  *)
(* segment as the first), "ccddeeff-11".                                   *)
(***************************************************************************)
SidA == <<"a","a","b","b","c","c","d","d","-","1","1">>
SidB == <<"a","a","b","b","c","c","d","d","-","2","2">>
SidC == <<"c","c","d","d","e","e","f","f","-","1","1">>
SessionIds == {SidA, SidB, SidC}

\* the ids a caller can name a session by: the id and its prefixes of 8
\* characters or more
Prefixes(s) == {SubSeq(s, 1, n) : n \in 8..Len(s)}
SessionArgs == UNION {Prefixes(s) : s \in SessionIds}

(***************************************************************************)
(* str.split('-'): the sequence of segments between hyphens.               *)
(***************************************************************************)
RECURSIVE SplitFrom(_, _, _, _)
SplitFrom(s, i, cur, acc) ==
    IF i > Len(s) THEN Append(acc, cur)
    ELSE IF s[i] = "-" THEN SplitFrom(s, i + 1, <<>>, Append(acc, cur))
    ELSE SplitFrom(s, i + 1, Append(cur, s[i]), acc)

Split(s) == SplitFrom(s, 1, <<>>, <<>>)

\* str.starts_with(prefix)
StartsWith(s, prefix) ==
    /\ Len(prefix) <= Len(s)
    /\ SubSeq(s, 1, Len(prefix)) = prefix

(***************************************************************************)
(* The tokens tantivy's default TEXT analyzer stores for a session_id:     *)
(* the maximal alphanumeric runs (the ids here are lower-case letters,     *)
(* digits and hyphens, so these are the non-empty hyphen segments).        *)
(***************************************************************************)
Tokens(s) ==
    LET segments == Split(s)
    IN  {segments[i] : i \in 1..Len(segments)} \ {<<>>}

(***************************************************************************)
(* Text the code trims is a sequence of one-character strings.             *)
(***************************************************************************)
Hello == <<"h", "i">>
World == <<"y", "o">>
Other == <<"o", "k">>
Warmup == <<"W", "a", "r", "m", "u", "p">>
Spaces == <<" ", "\n">>
Padded == <<" ", "x", " ">>

\* char::is_whitespace on the characters used here
IsWhitespace(ch) == ch \in {" ", "\t", "\n", "\r"}

\* str::trim
RECURSIVE TrimStart(_)
TrimStart(t) ==
    IF t = <<>> THEN <<>>
    ELSE IF IsWhitespace(Head(t)) THEN TrimStart(Tail(t))
    ELSE t

RECURSIVE TrimEnd(_)
TrimEnd(t) ==
    IF t = <<>> THEN <<>>
    ELSE IF IsWhitespace(t[Len(t)]) THEN TrimEnd(SubSeq(t, 1, Len(t) - 1))
    ELSE t

Trim(t) == TrimEnd(TrimStart(t))

(***************************************************************************)
(* Log lines.  A line is blank, or not valid JSON for RawJsonlMessage, or  *)
(* a JSON object with the fields the parser looks at: content is what      *)
(* extract_searchable_content makes of message.content, summary is the     *)
(* summary field (empty when absent).                                      *)
(***************************************************************************)
BadJson == [blank |-> FALSE, json |-> FALSE]
BlankLine == [blank |-> TRUE, json |-> FALSE]
Msg(type, uuid, sid, content) ==
    [blank |-> FALSE, json |-> TRUE, has_type |-> TRUE, type |-> type,
     has_uuid |-> TRUE, uuid |-> uuid,
     has_session_id |-> TRUE, sessionId |-> sid, timestamp_ok |-> TRUE,
     content |-> content, summary |-> <<>>]

\* the contents a log file can have
K2 == <<Msg("user", "u1", SidA, Hello), BadJson,
        Msg("assistant", "u2", SidA, World)>>
K3 == <<Msg("user", "u3", SidB, Other)>>
K4 == <<Msg("user", "u4", SidC, Hello), Msg("assistant", "u5", SidA, World)>>
\* only malformed lines
K5 == <<BadJson, BadJson>>
Contents == {K2, K3, K4, K5}

(***************************************************************************)
(* JsonlParser::parse_raw_message: NoEntry (None), or the entry of a line. *)
(***************************************************************************)
NoEntry == [none |-> TRUE]

\* a parse_raw_message without the "Skip empty content" test
ParseRawMessageKeepEmpty(raw, sequence_num) ==
    IF ~raw.has_type THEN NoEntry
    ELSE IF raw.type \notin {"user", "assistant", "summary"} THEN NoEntry
    ELSE IF ~raw.has_uuid \/ ~raw.has_session_id \/ ~raw.timestamp_ok THEN NoEntry
    ELSE [uuid |-> raw.uuid, session_id |-> raw.sessionId,
          sequence_num |-> sequence_num, message_type |-> raw.type,
          content |-> IF raw.type = "summary" THEN raw.summary ELSE raw.content]

ParseRawMessage(raw, sequence_num) ==
    IF ~raw.has_type THEN NoEntry
    ELSE IF raw.type \notin {"user", "assistant", "summary"} THEN NoEntry
    ELSE IF ~raw.has_uuid \/ ~raw.has_session_id \/ ~raw.timestamp_ok THEN NoEntry
    ELSE LET content == IF raw.type = "summary" THEN raw.summary ELSE raw.content
         IN  IF Trim(content) = <<>> THEN NoEntry
             ELSE [uuid |-> raw.uuid, session_id |-> raw.sessionId,
                   sequence_num |-> sequence_num, message_type |-> raw.type,
                   content |-> content]

(***************************************************************************)
(* JsonlParser::parse_file on the lines of a readable file: the entries,   *)
(* numbered by sequence_counter, which advances only on an emitted entry.  *)
(***************************************************************************)
\* a loop that numbers the entries by the line they come from
RECURSIVE ParseLinesByLineNum(_, _, _, _)
ParseLinesByLineNum(lines, i, entries, sequence_counter) ==
    IF i > Len(lines) THEN entries
    ELSE IF lines[i].blank \/ ~lines[i].json
    THEN ParseLinesByLineNum(lines, i + 1, entries, sequence_counter)
    ELSE LET e == ParseRawMessage(lines[i], i - 1)
         IN  IF e = NoEntry
             THEN ParseLinesByLineNum(lines, i + 1, entries, sequence_counter)
             ELSE ParseLinesByLineNum(lines, i + 1, Append(entries, e),
                                      sequence_counter + 1)

RECURSIVE ParseLines(_, _, _, _)
ParseLines(lines, i, entries, sequence_counter) ==
    IF i > Len(lines) THEN entries
    ELSE IF lines[i].blank THEN ParseLines(lines, i + 1, entries, sequence_counter)
    ELSE IF ~lines[i].json THEN ParseLines(lines, i + 1, entries, sequence_counter)
    ELSE LET e == ParseRawMessage(lines[i], sequence_counter)
         IN  IF e = NoEntry THEN ParseLines(lines, i + 1, entries, sequence_counter)
             ELSE ParseLines(lines, i + 1, Append(entries, e), sequence_counter + 1)

ParseFile(file) == ParseLines(file.lines, 1, <<>>, 0)

\* read_text_file fails (open error, invalid UTF-8): parse_file returns Err
ParseFails(file) == ~file.readable

(***************************************************************************)
(* tantivy index content: a bag of stored documents.                       *)
(***************************************************************************)
\* IndexWriter::delete_term(Term(session_id, term)): the documents that survive
DeleteTerm(docs, term) ==
    LET keep == {d \in DOMAIN docs : term \notin Tokens(d.session_id)}
    IN  [d \in keep |-> docs[d]]

\* IndexWriter::add_document for each entry, in order
RECURSIVE AddDocuments(_, _, _)
AddDocuments(docs, entries, i) ==
    IF i > Len(entries) THEN docs
    ELSE AddDocuments(docs (+) SetToBag({entries[i]}), entries, i + 1)

\* a delete_session that deletes by the whole id as one term: no token of the
\* tokenised field equals it, so nothing is deleted
DeleteSessionTermWholeId(session_id) == session_id

\* SearchIndexer::delete_session: the term it deletes by
DeleteSessionTerm(session_id) == Split(session_id)[1]

\* the writer operations in the other order: the delete is issued after the
\* documents are added
IndexFileDeleteLast(docs, entries) ==
    IF Len(entries) > 0
    THEN DeleteTerm(AddDocuments(docs, entries, 1),
                    DeleteSessionTerm(entries[1].session_id))
    ELSE docs

\* the writer operations without the delete: the documents are only added
IndexFileNoDelete(docs, entries) ==
    IF Len(entries) > 0 THEN AddDocuments(docs, entries, 1) ELSE docs

(***************************************************************************)
(* The writer operations update_incremental issues for one parsed file,    *)
(* applied in the order issued and made visible by the commit that ends    *)
(* index_conversations.                                                    *)
(***************************************************************************)
IndexFile(docs, entries) ==
    IF Len(entries) > 0
    THEN AddDocuments(DeleteTerm(docs, DeleteSessionTerm(entries[1].session_id)),
                      entries, 1)
    ELSE docs

(***************************************************************************)
(* SearchEngine::get_session_messages, as the bag of documents returned    *)
(* (before the sort by sequence_num).                                      *)
(***************************************************************************)
SessionQueryHits(docs, session_id) ==
    LET segments == Split(session_id)
    IN  {d \in DOMAIN docs :
            \A i \in 1..Len(segments) : segments[i] \in Tokens(d.session_id)}

GetSessionMessages(docs, session_id) ==
    LET hits == SessionQueryHits(docs, session_id)
        hitBag == [d \in hits |-> docs[d]]
        top == IF BagCardinality(hitBag) <= MAX_SESSION_MESSAGES THEN hitBag
               ELSE CHOOSE b \in SubBag(hitBag) : BagCardinality(b) = MAX_SESSION_MESSAGES
        keep == {d \in DOMAIN top :
                    d.session_id = session_id \/ StartsWith(d.session_id, session_id)}
    IN  [d \in keep |-> top[d]]

(***************************************************************************)
(* Cache metadata (cache-metadata.json and CacheManager.metadata).         *)
(* last_full_scan = 0 stands for None: the clock starts at 1.              *)
(***************************************************************************)
DefaultMetadata ==
    [indexed_files |-> <<>>, total_entries |-> 0, last_full_scan |-> 0]

\* CacheManager::new: the sidecar's content, or the default when there is none
NoSidecar == [absent |-> TRUE]

LoadMetadata(sc) == IF sc = NoSidecar THEN DefaultMetadata ELSE sc

\* a needs_indexing that looks at the size only
NeedsIndexingSizeOnly(metadata, f, file) ==
    IF f \in DOMAIN metadata.indexed_files
    THEN metadata.indexed_files[f].size # file.size
    ELSE TRUE

\* CacheManager::needs_indexing for a file that exists
NeedsIndexing(metadata, f, file) ==
    IF f \in DOMAIN metadata.indexed_files
    THEN \/ metadata.indexed_files[f].size # file.size
         \/ metadata.indexed_files[f].modified # file.mtime
    ELSE TRUE

\* the FileMetadata update_incremental records for a parsed file
Fingerprint(file, entry_count, at) ==
    [size |-> file.size, modified |-> file.mtime, indexed_at |-> at,
     entry_count |-> entry_count]

\* HashMap::insert / HashMap::remove on indexed_files
MapInsert(m, k, v) == [x \in DOMAIN m \cup {k} |-> IF x = k THEN v ELSE m[x]]
MapRemove(m, k) == [x \in DOMAIN m \ {k} |-> m[x]]

\* glob("projects/**/*.jsonl"): the files on disk, in path order
RECURSIVE GlobFrom(_, _)
GlobFrom(d, i) ==
    IF i > Len(FileOrder) THEN <<>>
    ELSE IF d[FileOrder[i]] = NoFile THEN GlobFrom(d, i + 1)
    ELSE <<FileOrder[i]>> \o GlobFrom(d, i + 1)

Glob(d) == GlobFrom(d, 1)

(***************************************************************************)
(* State.                                                                  *)
(***************************************************************************)
(***************************************************************************)
(* The schema of an index on disk, by the value of metaJson, and the two   *)
(* places that look fields up in it.                                       *)
(***************************************************************************)
\* build_schema: the fields of an index this version creates
SchemaFields ==
    {"uuid", "parent_uuid", "content", "project", "session_id", "timestamp",
     "message_type", "model", "technologies", "code_languages",
     "tools_mentioned", "has_code", "has_error", "cwd", "sequence_num",
     "is_sidechain", "agent_id"}

\* validate_schema's required_fields
RequiredFields ==
    {"uuid", "content", "project", "session_id", "timestamp", "message_type",
     "model"}

\* indexes on disk that are not of the current schema
StaleIndexes == {"no_model", "no_agent_id", "corrupt"}

\* the fields of the index on disk
DiskSchema(m) ==
    IF m = "ok" THEN SchemaFields
    ELSE IF m = "no_model" THEN SchemaFields \ {"model"}
    ELSE IF m = "no_agent_id" THEN SchemaFields \ {"agent_id"}
    ELSE {}

\* SearchIndexer::validate_schema: Err, Ok(false) or Ok(true)
ValidateSchema(m) ==
    IF m = "corrupt" THEN "err"
    ELSE IF \A field_name \in RequiredFields : field_name \in DiskSchema(m)
    THEN "true"
    ELSE "false"

\* SearchIndexer::open finds every field it looks up with get_field(..)?
OpenFindsFields(m) ==
    m # "corrupt" /\ \A field_name \in SchemaFields : field_name \in DiskSchema(m)

VARIABLES
    disk,        \* log files: [Files -> NoFile or [lines, size, mtime, readable]]
    envWrites,   \* writes to log files so far (also the clock mtimes come from)
    dirExists,   \* the cache (index) directory exists
    metaJson,    \* the index's meta.json: None, "ok" (schema of this version),
                 \* "no_model" or "no_agent_id" (a schema without that field),
                 \* or "corrupt" (Index::open_in_dir fails on it)
    committed,   \* the committed documents: what a reader that reloads sees
    sidecar,     \* cache-metadata.json: NoSidecar or the metadata written
    lockLinked,  \* index.lock exists at its path in the cache directory
    holds,       \* locked open file descriptions: [p, h, kind, mode, linked]
    pc,          \* where each process is in the operation it runs
    op,          \* the operation each process runs (or ran last)
    result,      \* how each process's last operation ended
    ops,         \* operations each process has started
    cm,          \* each process's CacheManager.metadata
    todo,        \* the files update_incremental has still to visit
    sw,          \* what the current update_incremental call has done so far
    prev,        \* the files of the last update_incremental call that returned
                 \* Ok, while no log file has been written since it began and
                 \* nobody else has written the sidecar since it returned
    now,         \* Utc::now(), counted in update_incremental calls
    stdin,       \* the lines the MCP client has sent that run_mcp_server has
                 \* not taken yet
    stdout,      \* the response lines run_mcp_server has written
    serving      \* where run_mcp_server is: its position in the loop, the
                 \* request and the response in hand, a scheduled respawn

vars == <<disk, envWrites, dirExists, metaJson, committed, sidecar, lockLinked,
          holds, pc, op, result, ops, cm, todo, sw, prev, now, stdin, stdout,
          serving>>

envVars == <<disk, envWrites>>
indexVars == <<dirExists, metaJson, committed, sidecar, lockLinked>>
stdioVars == <<stdin, stdout, serving>>

\* no MCP server runs on stdio
NotServing == [pc |-> "none"]
NoStdio == stdin = <<>> /\ stdout = <<>> /\ serving = NotServing

\* the bookkeeping of one update_incremental call: the files it was given,
\* whether it repeats the last call, whether the log files are as they were
\* when it began, the index and the fingerprints it started from, the files
\* the process's last call was given and had committed when it was aborted,
\* and what the loop has done
NoSweep ==
    [files |-> <<>>, repeat |-> FALSE, clean |-> FALSE, base |-> EmptyBag,
     fp0 |-> <<>>, rebuilt |-> FALSE,
     aborted |-> [files |-> <<>>, indexed |-> {}],
     visited |-> <<>>, parsed |-> {}, failed |-> {}, deletes |-> 0,
     appends |-> 0, commits |-> 0, total |-> 0]

\* no update_incremental call has returned yet
NoPrev == [none |-> TRUE]

(***************************************************************************)
(* The advisory lock (fs2 flock on index.lock) and tantivy's writer lock   *)
(* (a flock on a file of the index directory).  A lock belongs to an open  *)
(* file description of an inode; "linked" says the inode is still the file *)
(* at the path.  Removing the directory unlinks the files; the next open   *)
(* with create(true) makes a new inode nobody holds a lock on.             *)
(***************************************************************************)
\* flock(LOCK_EX | LOCK_NB) / flock(LOCK_SH | LOCK_NB) on the file at the path
LockConflict(hs, kind, mode) ==
    \E x \in hs : /\ x.kind = kind
                  /\ x.linked
                  /\ (mode = "Exclusive" \/ x.mode = "Exclusive")

\* IndexLock::try_lock succeeds
CanLock(hs, mode) == ~LockConflict(hs, "index", mode)

Hold(p, h, kind, mode) ==
    [p |-> p, h |-> h, kind |-> kind, mode |-> mode, linked |-> TRUE]

\* Drop of every IndexLock and IndexWriter the process owns
Released(hs, p) == {x \in hs : x.p # p}

\* fs::remove_dir_all(cache_dir): every file description loses its path
Unlinked(hs) == {[x EXCEPT !.linked = FALSE] : x \in hs}

HoldsExclusive(p) ==
    \E x \in holds : x.p = p /\ x.kind = "index" /\ x.mode = "Exclusive"

HoldsShared(p) ==
    \E x \in holds : x.p = p /\ x.kind = "index" /\ x.mode = "Shared"

\* the process's IndexWriter still writes into the directory at the path
WriterLinked(p) ==
    \E x \in holds : x.p = p /\ x.kind = "writer" /\ x.linked

TypeOK ==
    /\ dirExists \in BOOLEAN
    /\ lockLinked \in BOOLEAN
    /\ metaJson \in {None, "ok"} \cup StaleIndexes
    /\ envWrites \in 0..MaxEnvWrites
    /\ \A p \in Procs : ops[p] \in 0..MaxOps

Init ==
    /\ disk \in [Files -> {NoFile}]
    /\ envWrites = 0
    /\ dirExists = FALSE
    /\ metaJson = None
    /\ committed = EmptyBag
    /\ sidecar = NoSidecar
    /\ lockLinked = FALSE
    /\ holds = {}
    /\ pc = [p \in Procs |-> "idle"]
    /\ op = [p \in Procs |-> None]
    /\ result = [p \in Procs |-> None]
    /\ ops = [p \in Procs |-> 0]
    /\ cm = [p \in Procs |-> DefaultMetadata]
    /\ todo = [p \in Procs |-> <<>>]
    /\ sw = [p \in Procs |-> NoSweep]
    /\ prev = NoPrev
    /\ now = 0
    /\ NoStdio

(***************************************************************************)
(* The assistant writes, rewrites, touches or deletes a log file.  mtime   *)
(* has a granularity: a rewrite of the same length can leave size and      *)
(* mtime as they were.                                                     *)
(***************************************************************************)
EnvWrite(f, k, readable, keepMtime) ==
    /\ envWrites < MaxEnvWrites
    /\ keepMtime => /\ disk[f] # NoFile
                    /\ disk[f].size = Len(k)
                    /\ disk[f].lines # k
    /\ envWrites' = envWrites + 1
    /\ disk' = [disk EXCEPT ![f] =
                  [lines |-> k, size |-> Len(k), readable |-> readable,
                   mtime |-> IF keepMtime THEN disk[f].mtime ELSE envWrites + 1]]
    /\ prev' = NoPrev
    /\ sw' = [p \in Procs |-> [sw[p] EXCEPT !.clean = FALSE]]
    /\ UNCHANGED <<indexVars, stdioVars, holds, pc, op, result, ops, cm, todo, now>>

EnvDelete(f) ==
    /\ envWrites < MaxEnvWrites
    /\ disk[f] # NoFile
    /\ envWrites' = envWrites + 1
    /\ disk' = [disk EXCEPT ![f] = NoFile]
    /\ prev' = NoPrev
    /\ sw' = [p \in Procs |-> [sw[p] EXCEPT !.clean = FALSE]]
    /\ UNCHANGED <<indexVars, stdioVars, holds, pc, op, result, ops, cm, todo, now>>

(***************************************************************************)
(* Steps shared by the operations.                                         *)
(***************************************************************************)
\* the operation returns: its locks and its writer are dropped
Finish(p, res, hs) ==
    /\ pc' = [pc EXCEPT ![p] = "idle"]
    /\ result' = [result EXCEPT ![p] = res]
    /\ holds' = Released(hs, p)

Begin(p, name) ==
    /\ pc[p] = "idle"
    /\ ops[p] < MaxOps
    /\ ops' = [ops EXCEPT ![p] = @ + 1]
    /\ op' = [op EXCEPT ![p] = name]

\* fs::remove_dir_all(cache_dir) followed or not by create_dir_all
RemoveDirAll ==
    /\ metaJson' = None
    /\ committed' = EmptyBag
    /\ lockLinked' = FALSE
    /\ prev' = NoPrev

\* the call gets the files of the last call that returned Ok and the sidecar
\* that call saved, and no log file has been written since
Repeats(files, metadata) ==
    /\ prev = [files |-> files]
    /\ metadata = sidecar

\* update_incremental is entered with these files
EnterSweep(p, files, metadata) ==
    /\ todo' = [todo EXCEPT ![p] = files]
    /\ cm' = [cm EXCEPT ![p] = metadata]
    /\ sw' = [sw EXCEPT ![p] = [NoSweep EXCEPT !.files = files,
                                               !.repeat = Repeats(files, metadata),
                                               !.clean = TRUE,
                                               !.base = committed',
                                               !.fp0 = metadata.indexed_files,
                                               !.aborted = sw[p].aborted]]
    /\ now' = now + 1
    /\ pc' = [pc EXCEPT ![p] = "sweep"]
    /\ UNCHANGED prev

(***************************************************************************)
(* ExclusiveIndexAccess::acquire -> IndexLock::try_lock(Exclusive): makes  *)
(* the directory and the lock file if missing, then tries the lock without *)
(* blocking.  onFail is the result the caller returns when it fails.       *)
(***************************************************************************)
TryExclusive(p, h, next, onFail) ==
    /\ dirExists' = TRUE
    /\ lockLinked' = TRUE
    /\ IF CanLock(holds, "Exclusive")
       THEN /\ holds' = holds \cup {Hold(p, h, "index", "Exclusive")}
            /\ pc' = [pc EXCEPT ![p] = next]
            /\ UNCHANGED result
       ELSE Finish(p, onFail, holds)
    /\ UNCHANGED <<envVars, stdioVars, metaJson, committed, sidecar, cm, todo, sw, prev, now>>

(***************************************************************************)
(* cli/index.rs rebuild.                                                   *)
(***************************************************************************)
StartRebuild(p) ==
    /\ Begin(p, "rebuild")
    /\ TryExclusive(p, "outer", "rb_clear", "lock_error")

\* CacheManager::new, then CacheManager::clear_cache
RebuildClear(p) ==
    /\ pc[p] = "rb_clear"
    /\ RemoveDirAll
    /\ dirExists' = TRUE
    /\ sidecar' = DefaultMetadata
    /\ cm' = [cm EXCEPT ![p] = DefaultMetadata]
    /\ holds' = Unlinked(holds)
    /\ pc' = [pc EXCEPT ![p] = "rb_new"]
    /\ UNCHANGED <<envVars, stdioVars, op, result, ops, todo, sw, now>>

(***************************************************************************)
(* SearchIndexer::new (Index::create_in_dir fails on an existing index;    *)
(* index.writer takes tantivy's writer lock) followed by the caller's glob *)
(* and its entry into update_incremental.  reindex(full) makes its         *)
(* CacheManager after the indexer; rebuild keeps the one it cleared.       *)
(***************************************************************************)
SearchIndexerNew(p) ==
    /\ pc[p] \in {"rb_new", "rf_new"}
    /\ dirExists' = TRUE
    /\ IF metaJson # None
       THEN /\ Finish(p, "error", holds)
            /\ UNCHANGED <<metaJson, committed, cm, todo, sw, prev, now>>
       ELSE /\ metaJson' = "ok"
            /\ committed' = EmptyBag
            /\ IF LockConflict(holds, "writer", "Exclusive")
               THEN /\ Finish(p, "error", holds)
                    /\ UNCHANGED <<cm, todo, sw, prev, now>>
               ELSE /\ holds' = holds \cup {Hold(p, "writer", "writer", "Exclusive")}
                    /\ EnterSweep(p, Glob(disk),
                                  IF pc[p] = "rf_new" THEN LoadMetadata(sidecar)
                                  ELSE cm[p])
                    /\ UNCHANGED result
    /\ UNCHANGED <<envVars, stdioVars, sidecar, lockLinked, op, ops>>

(***************************************************************************)
(* cli/index.rs vacuum: takes the lock, then calls rebuild, which takes    *)
(* the lock again through a second open of index.lock.                     *)
(***************************************************************************)
StartVacuum(p) ==
    /\ Begin(p, "vacuum")
    /\ TryExclusive(p, "outer", "vac_rebuild", "lock_error")

VacuumRebuild(p) ==
    /\ pc[p] = "vac_rebuild"
    /\ IF ~dirExists
       THEN /\ Finish(p, "ok", holds)
            /\ UNCHANGED <<envVars, stdioVars, indexVars, cm, todo, sw, prev, now>>
       ELSE TryExclusive(p, "inner", "rb_clear", "lock_error")
    /\ UNCHANGED <<op, ops>>

(***************************************************************************)
(* SearchIndexer::open: Index::open_in_dir needs the index; index.writer   *)
(* takes tantivy's writer lock.                                            *)
(***************************************************************************)
CanOpenIndexer(hs) == metaJson = "ok" /\ ~LockConflict(hs, "writer", "Exclusive")

(***************************************************************************)
(* A CLI read command (search, topics, stats, session, summary):           *)
(* shared::auto_index, then the command opens a SearchEngine and reads.    *)
(***************************************************************************)
\* auto_index: the lock is tried; when it is busy auto_index returns Ok
StartSearch(p) ==
    /\ Begin(p, "search")
    /\ dirExists' = TRUE
    /\ lockLinked' = TRUE
    /\ IF CanLock(holds, "Exclusive")
       THEN /\ holds' = holds \cup {Hold(p, "outer", "index", "Exclusive")}
            /\ pc' = [pc EXCEPT ![p] = "ai_open"]
            /\ UNCHANGED result
       ELSE /\ pc' = [pc EXCEPT ![p] = "read_open"]
            /\ result' = [result EXCEPT ![p] = "skipped"]
            /\ UNCHANGED holds
    /\ UNCHANGED <<envVars, stdioVars, metaJson, committed, sidecar, cm, todo, sw, prev, now>>

\* the else arm of auto_index's schema check: remove_dir_all(index_path),
\* SearchIndexer::new, then the sweep with the CacheManager made before
AutoIndexRebuild(p) ==
    /\ metaJson' = "ok"
    /\ committed' = EmptyBag
    /\ sidecar' = NoSidecar
    /\ lockLinked' = FALSE
    /\ holds' = Unlinked(holds) \cup {Hold(p, "writer", "writer", "Exclusive")}
    /\ todo' = [todo EXCEPT ![p] = Glob(disk)]
    /\ cm' = [cm EXCEPT ![p] = LoadMetadata(sidecar)]
    /\ sw' = [sw EXCEPT ![p] = [NoSweep EXCEPT !.files = Glob(disk),
                                               !.clean = TRUE,
                                               !.rebuilt = TRUE,
                                               !.fp0 = cm'[p].indexed_files,
                                               !.aborted = sw[p].aborted]]
    /\ now' = now + 1
    /\ pc' = [pc EXCEPT ![p] = "sweep"]
    /\ UNCHANGED <<result, prev>>

\* auto_index: CacheManager::new, open or create the index, glob, sweep
AutoIndexOpen(p) ==
    /\ pc[p] = "ai_open"
    /\ dirExists' = TRUE
    /\ IF metaJson \in StaleIndexes /\ ValidateSchema(metaJson) # "true"
       THEN AutoIndexRebuild(p)
       ELSE /\ IF metaJson = None
               THEN /\ metaJson' = "ok"
                    /\ committed' = EmptyBag
               ELSE UNCHANGED <<metaJson, committed>>
            /\ IF metaJson \in StaleIndexes /\ ~OpenFindsFields(metaJson)
               THEN /\ Finish(p, "error", holds)
                    /\ UNCHANGED <<cm, todo, sw, prev, now>>
               ELSE IF LockConflict(holds, "writer", "Exclusive")
               THEN /\ Finish(p, "error", holds)
                    /\ UNCHANGED <<cm, todo, sw, prev, now>>
               ELSE /\ holds' = holds \cup {Hold(p, "writer", "writer", "Exclusive")}
                    /\ EnterSweep(p, Glob(disk), LoadMetadata(sidecar))
                    /\ UNCHANGED result
            /\ UNCHANGED <<sidecar, lockLinked>>
    /\ UNCHANGED <<envVars, stdioVars, op, ops>>

\* the command: SearchEngine::new on the index directory
ReadOpen(p) ==
    /\ pc[p] = "read_open"
    /\ IF dirExists /\ metaJson = "ok"
       THEN /\ pc' = [pc EXCEPT ![p] = "reading"]
            /\ UNCHANGED <<result, holds>>
       ELSE Finish(p, IF dirExists THEN "error" ELSE "ok", holds)
    /\ UNCHANGED <<envVars, stdioVars, indexVars, op, ops, cm, todo, sw, prev, now>>

\* the query has run on the searcher and the command returns
ReadDone(p) ==
    /\ pc[p] = "reading"
    /\ Finish(p, "ok", holds)
    /\ UNCHANGED <<envVars, stdioVars, indexVars, op, ops, cm, todo, sw, prev, now>>

(***************************************************************************)
(* cli/commands.rs clear_cache (cache clear).                              *)
(***************************************************************************)
ClearCache(p) ==
    /\ Begin(p, "clear")
    /\ RemoveDirAll
    /\ dirExists' = TRUE
    /\ sidecar' = DefaultMetadata
    /\ cm' = [cm EXCEPT ![p] = DefaultMetadata]
    /\ Finish(p, "ok", Unlinked(holds))
    /\ UNCHANGED <<envVars, stdioVars, todo, sw, now>>

(***************************************************************************)
(* mcp/server.rs tool_reindex.                                             *)
(***************************************************************************)
\* full: the cache directory is removed, then the indexer is made
StartReindexFull(p) ==
    /\ Begin(p, "reindex_full")
    /\ RemoveDirAll
    /\ dirExists' = FALSE
    /\ sidecar' = NoSidecar
    /\ holds' = Unlinked(holds)
    /\ pc' = [pc EXCEPT ![p] = "rf_new"]
    /\ UNCHANGED <<envVars, stdioVars, result, cm, todo, sw, now>>

\* incremental: SearchIndexer::open, CacheManager::new, sweep
StartReindexIncr(p) ==
    /\ Begin(p, "reindex_incr")
    /\ IF CanOpenIndexer(holds)
       THEN /\ holds' = holds \cup {Hold(p, "writer", "writer", "Exclusive")}
            /\ UNCHANGED <<indexVars, result>>
            /\ EnterSweep(p, Glob(disk), LoadMetadata(sidecar))
       ELSE /\ Finish(p, "error", holds)
            /\ UNCHANGED <<indexVars, cm, todo, sw, prev, now>>
    /\ UNCHANGED <<envVars, stdioVars>>

(***************************************************************************)
(* mcp/server.rs tool_get_session_messages -> ensure_session_fresh.        *)
(* session_jsonl_path: the log file named after the session id.            *)
(***************************************************************************)
SessionJsonlPath(session_id) ==
    IF session_id = SidA THEN "f1"
    ELSE IF session_id = SidC THEN "f2"
    ELSE None

StartSession(p, session_id) ==
    /\ Begin(p, "session")
    /\ metaJson = "ok"
    /\ LET messages == GetSessionMessages(committed, session_id)
           path == SessionJsonlPath(session_id)
           stale == /\ messages # EmptyBag
                    /\ path # None
                    /\ disk[path] # NoFile
                    /\ NeedsIndexing(LoadMetadata(sidecar), path, disk[path])
       IN  IF ~stale
           THEN /\ Finish(p, "ok", holds)
                /\ UNCHANGED <<indexVars, cm, todo, sw, prev, now>>
           ELSE IF CanOpenIndexer(holds)
           THEN /\ holds' = holds \cup {Hold(p, "writer", "writer", "Exclusive")}
                /\ UNCHANGED <<indexVars, result>>
                /\ EnterSweep(p, <<path>>, LoadMetadata(sidecar))
           ELSE /\ Finish(p, "error", holds)
                /\ UNCHANGED <<indexVars, cm, todo, sw, prev, now>>
    /\ UNCHANGED <<envVars, stdioVars>>

(***************************************************************************)
(* CacheManager::update_incremental, one file of the loop per step.        *)
(***************************************************************************)
\* what the loop body does to the sweep's bookkeeping
Visit(s, f, didParse, didFail, n) ==
    [s EXCEPT !.visited = Append(@, f),
              !.parsed = IF didParse THEN @ \cup {f} ELSE @,
              !.failed = IF didFail THEN @ \cup {f} ELSE @,
              !.deletes = IF n > 0 THEN @ + 1 ELSE @,
              !.appends = IF n > 0 THEN @ + 1 ELSE @,
              !.commits = IF n > 0 THEN @ + 1 ELSE @,
              !.total = @ + n]

\* if !file_path.exists(): the fingerprint is dropped
SweepMissing(p, f) ==
    /\ cm' = [cm EXCEPT ![p].indexed_files = MapRemove(@, f)]
    /\ sw' = [sw EXCEPT ![p] = Visit(@, f, FALSE, FALSE, 0)]
    /\ todo' = [todo EXCEPT ![p] = Tail(@)]
    /\ UNCHANGED <<committed, pc, result, holds>>

\* if !self.needs_indexing(): the file is skipped
SweepSkip(p, f) ==
    /\ sw' = [sw EXCEPT ![p] = Visit(@, f, FALSE, FALSE, 0)]
    /\ todo' = [todo EXCEPT ![p] = Tail(@)]
    /\ UNCHANGED <<committed, cm, pc, result, holds>>

\* a loop that returns the parse error with `?` instead of logging it
SweepParseErrorAbort(p, f) ==
    /\ pc' = [pc EXCEPT ![p] = "idle"]
    /\ result' = [result EXCEPT ![p] = "error"]
    /\ holds' = {x \in holds : x.p # p}
    /\ sw' = [sw EXCEPT ![p] = Visit(@, f, TRUE, TRUE, 0)]
    /\ UNCHANGED <<committed, cm, todo>>

\* Err(e) => warn!(..): nothing is written and the loop goes on
SweepParseError(p, f) ==
    /\ sw' = [sw EXCEPT ![p] = Visit(@, f, TRUE, TRUE, 0)]
    /\ todo' = [todo EXCEPT ![p] = Tail(@)]
    /\ UNCHANGED <<committed, cm, pc, result, holds>>

\* delete_session / index_conversations fail with `?` (the index directory
\* was removed under the writer): update_incremental returns the error
SweepWriteError(p) ==
    /\ Finish(p, "error", holds)
    /\ sw' = [sw EXCEPT ![p] = NoSweep]
    /\ UNCHANGED <<committed, cm, todo>>

\* Ok(entries): delete_session, index_conversations (with its commit) when
\* there are entries, then the fingerprint
SweepIndex(p, f, file, entries) ==
    /\ committed' = IndexFile(committed, entries)
    /\ cm' = [cm EXCEPT ![p].indexed_files =
                MapInsert(@, f, Fingerprint(file, Len(entries), now))]
    /\ sw' = [sw EXCEPT ![p] = Visit(@, f, TRUE, FALSE, Len(entries))]
    /\ todo' = [todo EXCEPT ![p] = Tail(@)]
    /\ UNCHANGED <<pc, result, holds>>

SweepFile(p) ==
    /\ pc[p] = "sweep"
    /\ todo[p] # <<>>
    /\ LET f == Head(todo[p])
           file == disk[f]
       IN  IF file = NoFile THEN SweepMissing(p, f)
           ELSE IF ~NeedsIndexing(cm[p], f, file) THEN SweepSkip(p, f)
           ELSE IF ParseFails(file) THEN SweepParseError(p, f)
           ELSE IF Len(ParseFile(file)) > 0 /\ ~WriterLinked(p) THEN SweepWriteError(p)
           ELSE SweepIndex(p, f, file, ParseFile(file))
    /\ UNCHANGED <<envVars, stdioVars, dirExists, metaJson, sidecar, lockLinked, op, ops,
                   prev, now>>

(***************************************************************************)
(* The end of update_incremental (total_entries, last_full_scan,           *)
(* save_metadata) and the rest of the caller: rebuild and auto_index       *)
(* return, dropping the writer and the lock; the MCP tools open a new      *)
(* SearchEngine on the index.                                              *)
(***************************************************************************)
SweepEnd(p) ==
    /\ pc[p] = "sweep"
    /\ todo[p] = <<>>
    /\ cm' = [cm EXCEPT ![p].total_entries = @ + sw[p].total,
                        ![p].last_full_scan = now]
    /\ sidecar' = cm'[p]
    /\ dirExists' = TRUE
    /\ prev' = IF sw[p].clean THEN [files |-> sw[p].files] ELSE NoPrev
    /\ sw' = [sw EXCEPT ![p] = NoSweep]
    /\ IF op[p] = "search"
       THEN /\ holds' = Released(holds, p)
            /\ pc' = [pc EXCEPT ![p] = "read_open"]
            /\ result' = [result EXCEPT ![p] = "indexed"]
       ELSE IF op[p] \in {"rebuild", "vacuum"}
       THEN Finish(p, "ok", holds)
       ELSE Finish(p, IF metaJson = "ok" THEN "ok" ELSE "error", holds)
    /\ UNCHANGED <<envVars, stdioVars, metaJson, committed, lockLinked, op, ops, todo, now>>

(***************************************************************************)
(* cli/index.rs show_status: the two is_available probes take and drop the *)
(* lock (making the directory and the lock file); then the shared lock is  *)
(* held while the sidecar is read.                                         *)
(***************************************************************************)
StartStatus(p) ==
    /\ Begin(p, "status")
    /\ dirExists' = TRUE
    /\ lockLinked' = TRUE
    /\ IF CanLock(holds, "Shared")
       THEN /\ holds' = holds \cup {Hold(p, "outer", "index", "Shared")}
            /\ pc' = [pc EXCEPT ![p] = "st_read"]
            /\ UNCHANGED result
       ELSE Finish(p, "unreadable", holds)
    /\ UNCHANGED <<envVars, stdioVars, metaJson, committed, sidecar, cm, todo, sw, prev, now>>

\* CacheManager::new and get_basic_stats, then the lock is dropped
StatusRead(p) ==
    /\ pc[p] = "st_read"
    /\ cm' = [cm EXCEPT ![p] = LoadMetadata(sidecar)]
    /\ dirExists' = TRUE
    /\ Finish(p, "ok", holds)
    /\ UNCHANGED <<envVars, stdioVars, metaJson, committed, sidecar, lockLinked, op, ops,
                   todo, sw, prev, now>>

(***************************************************************************)
(* Specifications.                                                         *)
(***************************************************************************)
Env ==
    \/ \E f \in Files, k \in Contents, keep \in BOOLEAN : EnvWrite(f, k, TRUE, keep)
    \/ \E f \in Files : EnvWrite(f, K2, FALSE, FALSE)
    \/ \E f \in Files : EnvDelete(f)

\* the operations that index: auto-index and a read, the MCP reindex and
\* session refresh, each with its update_incremental call
IndexStep(p) ==
    \/ StartSearch(p)
    \/ AutoIndexOpen(p)
    \/ ReadOpen(p)
    \/ ReadDone(p)
    \/ StartReindexFull(p)
    \/ SearchIndexerNew(p)
    \/ StartReindexIncr(p)
    \/ \E s \in SessionArgs : StartSession(p, s)
    \/ SweepFile(p)
    \/ SweepEnd(p)

\* the maintenance commands: rebuild, vacuum, cache clear, status
MaintStep(p) ==
    \/ StartRebuild(p)
    \/ RebuildClear(p)
    \/ StartVacuum(p)
    \/ VacuumRebuild(p)
    \/ ClearCache(p)
    \/ StartStatus(p)
    \/ StatusRead(p)

\* one front-end process indexes while the assistant writes its logs
Next == Env \/ IndexStep("p1")

Spec == Init /\ [][Next]_vars

\* two front-end processes over a corpus that does not change
ConcCorpus ==
    [f \in Files |->
        [lines |-> IF f = "f1" THEN K2 ELSE K3,
         size |-> Len(IF f = "f1" THEN K2 ELSE K3),
         readable |-> TRUE, mtime |-> 1]]

InitConc ==
    /\ disk = ConcCorpus
    /\ envWrites = MaxEnvWrites
    /\ dirExists = FALSE
    /\ metaJson = None
    /\ committed = EmptyBag
    /\ sidecar = NoSidecar
    /\ lockLinked = FALSE
    /\ holds = {}
    /\ pc = [p \in Procs |-> "idle"]
    /\ op = [p \in Procs |-> None]
    /\ result = [p \in Procs |-> None]
    /\ ops = [p \in Procs |-> 0]
    /\ cm = [p \in Procs |-> DefaultMetadata]
    /\ todo = [p \in Procs |-> <<>>]
    /\ sw = [p \in Procs |-> NoSweep]
    /\ prev = NoPrev
    /\ now = 0
    /\ NoStdio

NextConc == \E p \in Procs : IndexStep(p) \/ MaintStep(p)

SpecConc == InitConc /\ [][NextConc]_vars

(***************************************************************************)
(* What a step is, read off the state before it.                           *)
(***************************************************************************)
\* the process takes the step
Acts(p) == pc'[p] # pc[p] \/ ops'[p] # ops[p] \/ todo'[p] # todo[p]

\* the file the loop of p's update_incremental call visits next
NextFile(p) == Head(todo[p])

\* the loop is about to parse its next file: the file exists and has no
\* fingerprint, or its size or mtime differs from the fingerprint
AboutToParse(p) ==
    /\ pc[p] = "sweep"
    /\ todo[p] # <<>>
    /\ disk[NextFile(p)] # NoFile
    /\ LET m == cm[p].indexed_files
           f == NextFile(p)
       IN  \/ f \notin DOMAIN m
           \/ m[f].size # disk[f].size
           \/ m[f].modified # disk[f].mtime

\* ... and that parse will fail
AboutToFail(p) == AboutToParse(p) /\ ~disk[NextFile(p)].readable

\* the entries the loop is about to index (none when it parses nothing)
NextEntries(p) ==
    IF AboutToParse(p) /\ disk[NextFile(p)].readable
    THEN ParseFile(disk[NextFile(p)])
    ELSE <<>>

\* the step is one completed pass of p's loop body
LoopStep(p) == pc[p] = "sweep" /\ todo[p] # <<>> /\ todo'[p] = Tail(todo[p])

\* the step is one in which p's loop indexes a file's entries
IndexingStep(p) == LoopStep(p) /\ Len(NextEntries(p)) > 0

\* the step is the end of p's update_incremental call
EndStep(p) == pc[p] = "sweep" /\ todo[p] = <<>> /\ pc'[p] # "sweep"

\* how many of the entries are the document d
Occurrences(entries, d) == Cardinality({i \in 1..Len(entries) : entries[i] = d})

\* documents of the session in the index
OfSession(docs, s) == {d \in DOMAIN docs : d.session_id = s}

\* a file still to visit in p's call has entries to index
PendingIndex(p) ==
    \E i \in 1..Len(todo[p]) :
        LET f == todo[p][i]
        IN  /\ disk[f] # NoFile
            /\ NeedsIndexing(cm[p], f, disk[f])
            /\ disk[f].readable
            /\ Len(ParseFile(disk[f])) > 0

(***************************************************************************)
(* C1: every step that changes the index content, the index's meta.json or *)
(* the sidecar (also by removing the directory) is taken by a process that *)
(* holds the exclusive index lock when it takes it.                        *)
(***************************************************************************)
C1_MutationsHoldExclusiveLock ==
    [][(committed' # committed \/ sidecar' # sidecar \/ metaJson' # metaJson)
         => \E p \in Procs : Acts(p) /\ HoldsExclusive(p)]_vars

(***************************************************************************)
(* C2: no two processes hold the exclusive lock at once, and while a       *)
(* rebuild is between acquiring the lock and returning, no other process   *)
(* holds the lock in either mode.                                          *)
(***************************************************************************)
InRebuild(p) == op[p] = "rebuild" /\ pc[p] \in {"rb_clear", "rb_new", "sweep"}

C2_RebuildExcludesOthers ==
    \A p \in Procs : \A q \in Procs \ {p} :
        /\ ~(HoldsExclusive(p) /\ HoldsExclusive(q))
        /\ InRebuild(p) => ~HoldsExclusive(q) /\ ~HoldsShared(q)

(***************************************************************************)
(* C3: a process that reads the index holds the shared lock while it reads,*)
(* and no other process holds the exclusive lock at that time.             *)
(***************************************************************************)
C3_ReadsHoldSharedLock ==
    \A p \in Procs :
        pc[p] = "reading" =>
            /\ HoldsShared(p)
            /\ \A q \in Procs \ {p} : ~HoldsExclusive(q)

(***************************************************************************)
(* C4: when another process holds the exclusive lock, a rebuild or vacuum  *)
(* that starts returns the lock error at once, an auto-index that starts   *)
(* skips indexing without the lock, and the step changes neither the index *)
(* nor the sidecar.                                                        *)
(***************************************************************************)
C4_BusyLockFailsWithoutBlocking ==
    [][\A p \in Procs :
         (/\ pc[p] = "idle"
          /\ ops'[p] # ops[p]
          /\ op'[p] \in {"rebuild", "vacuum", "search"}
          /\ \E q \in Procs \ {p} : HoldsExclusive(q))
         => /\ op'[p] \in {"rebuild", "vacuum"}
                 => pc'[p] = "idle" /\ result'[p] = "lock_error"
            /\ op'[p] = "search"
                 => pc'[p] = "read_open" /\ result'[p] = "skipped"
            /\ \A x \in holds' : x.p # p
            /\ committed' = committed
            /\ sidecar' = sidecar
            /\ metaJson' = metaJson]_vars

(***************************************************************************)
(* C5: the delete that precedes the indexing of a file's entries, for the  *)
(* session s of the first entry, removes exactly the documents of s: after *)
(* the step every document of another session is still in the index, and   *)
(* the documents of s are the entries just added.                          *)
(***************************************************************************)
C5_DeleteRemovesExactlySession ==
    [][\A p \in Procs :
         IndexingStep(p) =>
            LET entries == NextEntries(p)
                s == entries[1].session_id
            IN  /\ \A d \in DOMAIN committed :
                      d.session_id # s =>
                         CopiesIn(d, committed') >= CopiesIn(d, committed)
                /\ \A d \in OfSession(committed, s) :
                      CopiesIn(d, committed') = Occurrences(entries, d)]_vars

(***************************************************************************)
(* C6: whenever no update_incremental call is running, no two documents of *)
(* the index have the same (session_id, sequence_num).                     *)
(***************************************************************************)
C6_SequenceNumbersUnique ==
    (\A p \in Procs : pc[p] # "sweep") =>
        \A d \in DOMAIN committed :
            /\ committed[d] = 1
            /\ \A e \in DOMAIN committed :
                  (d.session_id = e.session_id /\ d.sequence_num = e.sequence_num)
                     => d = e

(***************************************************************************)
(* C7: when the loop indexes a file whose entries all carry the session s  *)
(* (delete of s, append of the entries, commit), get_session_messages(s)   *)
(* on the committed index returns exactly those entries, each once, and no *)
(* document of s that was in the index before.                             *)
(***************************************************************************)
C7_RetrievalAfterReindex ==
    [][\A p \in Procs :
         (/\ IndexingStep(p)
          /\ \A i \in 1..Len(NextEntries(p)) :
                NextEntries(p)[i].session_id = NextEntries(p)[1].session_id)
         => LET entries == NextEntries(p)
                got == GetSessionMessages(committed', entries[1].session_id)
            IN  /\ DOMAIN got = {entries[i] : i \in 1..Len(entries)}
                /\ \A d \in DOMAIN got : got[d] = Occurrences(entries, d)]_vars

\* a call has re-indexed the file of SidA: a document of SidA the index held
\* when the call began is gone and SidA's new documents are retrieved
C7_Witness ==
    \E p \in Procs :
        /\ pc[p] = "sweep"
        /\ sw[p].commits > 0
        /\ \E d \in OfSession(sw[p].base, SidA) : d \notin DOMAIN committed
        /\ GetSessionMessages(committed, SidA) # EmptyBag

(***************************************************************************)
(* C8 as stated: the loop parses a file and rewrites its fingerprint if    *)
(* and only if the file has no fingerprint or its size or mtime differs;   *)
(* a call that repeats the last one on unchanged inputs parses nothing,    *)
(* deletes and appends nothing, and saves a sidecar that differs from the  *)
(* one before in last_full_scan only.                                      *)
(***************************************************************************)
Rewritten(p) ==
    /\ NextFile(p) \in sw'[p].parsed
    /\ NextFile(p) \in DOMAIN cm'[p].indexed_files
    /\ cm'[p].indexed_files[NextFile(p)] =
          [size |-> disk[NextFile(p)].size, modified |-> disk[NextFile(p)].mtime,
           indexed_at |-> now, entry_count |-> Len(NextEntries(p))]

\* the call that ends repeats the last one and nothing was written meanwhile
RepeatEnds(p) == EndStep(p) /\ sw[p].repeat /\ sw[p].clean

SameButLastFullScan(a, b) ==
    [a EXCEPT !.last_full_scan = 0] = [b EXCEPT !.last_full_scan = 0]

C8_SecondCallParsesNothing ==
    [][\A p \in Procs :
         /\ LoopStep(p) => (Rewritten(p) <=> AboutToParse(p))
         /\ RepeatEnds(p) =>
               /\ sw[p].parsed = {}
               /\ sw[p].deletes = 0 /\ sw[p].appends = 0
               /\ SameButLastFullScan(sidecar', sidecar)]_vars

(***************************************************************************)
(* C8 amended: the loop parses a file if and only if the file exists and   *)
(* has no fingerprint or its size or mtime differs, and rewrites the       *)
(* fingerprint exactly when that parse succeeds; a call that repeats the   *)
(* last one on unchanged inputs parses only the files whose parse fails,   *)
(* deletes and appends nothing, and saves a sidecar that differs from the  *)
(* one before in last_full_scan only.                                      *)
(***************************************************************************)
C8_SecondCallParsesOnlyFailures ==
    [][\A p \in Procs :
         /\ LoopStep(p) =>
               /\ NextFile(p) \in sw'[p].parsed <=> AboutToParse(p)
               /\ Rewritten(p) <=> (AboutToParse(p) /\ ~AboutToFail(p))
         /\ RepeatEnds(p) =>
               /\ sw[p].parsed = sw[p].failed
               /\ sw[p].deletes = 0 /\ sw[p].appends = 0
               /\ cm[p].indexed_files = sw[p].fp0
               /\ committed = sw[p].base
               /\ SameButLastFullScan(sidecar', sidecar)]_vars

\* a repeated call over two unchanged files is at its end: it skipped one
\* file and parsed again the one that cannot be read
C8_Witness ==
    \E p \in Procs :
        /\ pc[p] = "sweep" /\ todo[p] = <<>>
        /\ sw[p].repeat /\ sw[p].clean
        /\ Len(sw[p].visited) = 2
        /\ sw[p].failed # {}
        /\ sw[p].parsed = sw[p].failed

(***************************************************************************)
(* C9 as stated: one commit covers a whole update_incremental call: while  *)
(* a file with entries to index is still to be visited, the committed      *)
(* index is the one the call started from, and a call commits at most once.*)
(***************************************************************************)
C9_SingleCommitPerSweep ==
    \A p \in Procs :
        pc[p] = "sweep" =>
            /\ sw[p].commits <= 1
            /\ PendingIndex(p) => committed = sw[p].base

(***************************************************************************)
(* C9 amended: index_conversations commits once per file: the step that    *)
(* indexes a file makes the file's delete and its append visible together  *)
(* (every entry of the file is in the committed index right after it, and  *)
(* no document of the deleted session other than those entries), whatever  *)
(* files the call has still to visit.                                      *)
(***************************************************************************)
C9_CommitPerFile ==
    [][\A p \in Procs :
         IndexingStep(p) =>
            LET entries == NextEntries(p)
            IN  /\ \A i \in 1..Len(entries) : BagIn(entries[i], committed')
                /\ \A d \in OfSession(committed', entries[1].session_id) :
                      Occurrences(entries, d) > 0]_vars

\* in the middle of a call: a file's entries are committed while another
\* file with entries is still to be visited
C9_Witness ==
    \E p \in Procs :
        /\ pc[p] = "sweep"
        /\ sw[p].commits >= 1
        /\ committed # sw[p].base
        /\ PendingIndex(p)

(***************************************************************************)
(* C10: when the parse of a file X fails, the loop goes on to the files    *)
(* after X, the step changes neither the committed index nor any           *)
(* fingerprint (the files handled before X stay committed and              *)
(* fingerprinted, X's fingerprint stays as it was); at the end of the call *)
(* every file given has been visited and each failed file still has the    *)
(* fingerprint it had at the start, so that needs_indexing is still true   *)
(* for it while it is as it was; the sidecar is written by the call once,  *)
(* in its last step.                                                       *)
(***************************************************************************)
SameFingerprint(m1, m2, f) ==
    /\ f \in DOMAIN m1 <=> f \in DOMAIN m2
    /\ f \in DOMAIN m1 => m1[f] = m2[f]

C10_ParseFailureIsolated ==
    [][\A p \in Procs :
         /\ (AboutToFail(p) /\ Acts(p)) =>
               /\ pc'[p] = "sweep"
               /\ todo'[p] = Tail(todo[p])
               /\ cm'[p] = cm[p]
               /\ committed' = committed
               /\ sidecar' = sidecar
         /\ EndStep(p) =>
               /\ sw[p].visited = sw[p].files
               /\ \A x \in sw[p].failed :
                     /\ SameFingerprint(cm[p].indexed_files, sw[p].fp0, x)
                     /\ sw[p].clean => NeedsIndexing(cm'[p], x, disk[x])
               /\ sidecar' = cm'[p]
               /\ sidecar'.indexed_files = cm[p].indexed_files
         /\ (pc[p] = "sweep" /\ sidecar' # sidecar) => EndStep(p)]_vars

\* a call is at its end: the parse of f1 failed and f2, visited after it,
\* was parsed and indexed
C10_Witness ==
    \E p \in Procs :
        /\ pc[p] = "sweep" /\ todo[p] = <<>>
        /\ sw[p].failed = {"f1"}
        /\ sw[p].visited = <<"f1", "f2">>
        /\ "f2" \in sw[p].parsed
        /\ sw[p].commits = 1

(***************************************************************************)
(* C11: when the loop parses a file that contains only malformed lines, it *)
(* gets zero records and leaves the file's fingerprint as it was (none is  *)
(* created, none is updated), so needs_indexing is still true for the file.*)
(***************************************************************************)
OnlyMalformed(file) ==
    /\ file.readable
    /\ Len(file.lines) > 0
    /\ \A i \in 1..Len(file.lines) : ~file.lines[i].blank /\ ~file.lines[i].json

C11_MalformedFileNotFingerprinted ==
    [][\A p \in Procs :
         (LoopStep(p) /\ AboutToParse(p) /\ OnlyMalformed(disk[NextFile(p)]))
         => /\ NextEntries(p) = <<>>
            /\ SameFingerprint(cm'[p].indexed_files, cm[p].indexed_files, NextFile(p))
            /\ NeedsIndexing(cm'[p], NextFile(p), disk[NextFile(p)])]_vars

(***************************************************************************)
(* C12: a sweep of the log files found on disk (auto-index, reindex) during *)
(* which no log file is written ends with a sidecar in which every         *)
(* fingerprint is of a file that exists: the fingerprint of a file deleted *)
(* before the sweep is gone, and the step that drops a fingerprint leaves  *)
(* the index as it was.                                                    *)
(***************************************************************************)
FullSweep(p) == op[p] \in {"search", "reindex_incr", "reindex_full"}

C12_DeletedFileEvicted ==
    [][\A p \in Procs :
         /\ (EndStep(p) /\ FullSweep(p) /\ sw[p].clean)
               => \A f \in DOMAIN sidecar'.indexed_files : disk[f] # NoFile
         /\ (LoopStep(p) /\ disk[NextFile(p)] = NoFile)
               => /\ NextFile(p) \notin DOMAIN cm'[p].indexed_files
                  /\ committed' = committed]_vars

(***************************************************************************)
(* An installation whose index was written with another schema: the index  *)
(* directory holds a stale (or a current) index of f1's entries, with or   *)
(* without a sidecar that fingerprints f1, and the log files are at rest.  *)
(***************************************************************************)
LogFile(k, readable) ==
    [lines |-> k, size |-> Len(k), readable |-> readable, mtime |-> 1]

SchemaCorpora ==
    {[f \in Files |-> IF f = "f1" THEN LogFile(K3, TRUE) ELSE f2] :
        f2 \in {NoFile, LogFile(K2, TRUE), LogFile(K2, FALSE)}}

InitSchema ==
    /\ disk \in SchemaCorpora
    /\ envWrites = MaxEnvWrites
    /\ dirExists = TRUE
    /\ metaJson \in {"ok"} \cup StaleIndexes
    /\ committed = AddDocuments(EmptyBag, ParseFile(disk["f1"]), 1)
    /\ sidecar \in {NoSidecar,
                    [DefaultMetadata EXCEPT
                       !.indexed_files = MapInsert(<<>>, "f1",
                                            Fingerprint(disk["f1"], 1, 0)),
                       !.total_entries = 1]}
    /\ lockLinked = TRUE
    /\ holds = {}
    /\ pc = [p \in Procs |-> "idle"]
    /\ op = [p \in Procs |-> None]
    /\ result = [p \in Procs |-> None]
    /\ ops = [p \in Procs |-> 0]
    /\ cm = [p \in Procs |-> DefaultMetadata]
    /\ todo = [p \in Procs |-> <<>>]
    /\ sw = [p \in Procs |-> NoSweep]
    /\ prev = NoPrev
    /\ now = 1
    /\ NoStdio

SpecSchema == InitSchema /\ [][IndexStep("p1")]_vars

\* C13: when auto_index finds an index that is not of the current schema it
\* does not fail: it goes on to the sweep over a removed and re-created
\* (empty) index; and when that sweep ends every log file on disk has a
\* fingerprint in the sidecar.
C13_SchemaMismatchRebuilds ==
    [][\A p \in Procs :
         /\ (pc[p] = "ai_open" /\ metaJson \in StaleIndexes /\ pc'[p] # "ai_open")
               => /\ pc'[p] = "sweep"
                  /\ metaJson' = "ok"
                  /\ committed' = EmptyBag
         /\ (EndStep(p) /\ sw[p].rebuilt)
               => \A f \in Files : disk[f] # NoFile
                                     => f \in DOMAIN sidecar'.indexed_files]_vars

(***************************************************************************)
(* The parser on every short log file: one file whose lines are drawn from *)
(* the kinds of line parse_file and parse_raw_message tell apart, parsed   *)
(* and indexed by the auto-index run of CLI read commands.                 *)
(***************************************************************************)
MaxLines == 3

\* a line that is a JSON object without a "type"
NoTypeLine == [Msg("user", "u6", SidA, Hello) EXCEPT !.has_type = FALSE]
\* a line of a type parse_raw_message drops
SnapshotLine == Msg("file-history-snapshot", "u7", SidA, Hello)
\* lines without a required field
NoUuidLine == [Msg("user", "u8", SidA, Hello) EXCEPT !.has_uuid = FALSE]
NoSessionLine == [Msg("user", "u9", SidA, Hello) EXCEPT !.has_session_id = FALSE]
BadTimeLine == [Msg("user", "u10", SidA, Hello) EXCEPT !.timestamp_ok = FALSE]
\* a message whose content is whitespace, and one with text inside whitespace
WhitespaceLine == Msg("user", "u11", SidA, Spaces)
PaddedLine == Msg("user", "u12", SidA, Padded)
AssistantLine == Msg("assistant", "u13", SidA, World)
\* a summary line with its summary text, and one with message content only
SummaryLine == [Msg("summary", "u14", SidA, <<>>) EXCEPT !.summary = Other]
SummaryNoText == Msg("summary", "u15", SidA, Hello)

LineKinds ==
    {BlankLine, BadJson, NoTypeLine, SnapshotLine, NoUuidLine, NoSessionLine,
     BadTimeLine, WhitespaceLine, PaddedLine, AssistantLine, SummaryLine,
     SummaryNoText}

SeqsUpTo(S, n) == UNION {[1..k -> S] : k \in 0..n}

InitParse ==
    /\ \E lines \in SeqsUpTo(LineKinds, MaxLines) :
          disk = [f \in Files |-> IF f = "f1" THEN LogFile(lines, TRUE) ELSE NoFile]
    /\ envWrites = MaxEnvWrites
    /\ dirExists = FALSE
    /\ metaJson = None
    /\ committed = EmptyBag
    /\ sidecar = NoSidecar
    /\ lockLinked = FALSE
    /\ holds = {}
    /\ pc = [p \in Procs |-> "idle"]
    /\ op = [p \in Procs |-> None]
    /\ result = [p \in Procs |-> None]
    /\ ops = [p \in Procs |-> 0]
    /\ cm = [p \in Procs |-> DefaultMetadata]
    /\ todo = [p \in Procs |-> <<>>]
    /\ sw = [p \in Procs |-> NoSweep]
    /\ prev = NoPrev
    /\ now = 0
    /\ NoStdio

NextParse ==
    \/ StartSearch("p1")
    \/ AutoIndexOpen("p1")
    \/ SweepFile("p1")
    \/ SweepEnd("p1")
    \/ ReadOpen("p1")
    \/ ReadDone("p1")

SpecParse == InitParse /\ [][NextParse]_vars

\* parse_file pushes an entry for the line
Emitted(line) ==
    /\ ~line.blank
    /\ line.json
    /\ ParseRawMessage(line, 0) # NoEntry

\* the loop step parses a file it could read
ParsingStep(p) == LoopStep(p) /\ AboutToParse(p) /\ disk[NextFile(p)].readable

\* C14: the records parse_file returns for a file are those of the lines it
\* does not skip, in the order of the lines, and the j-th of them (counting
\* from 0) has sequence_num j, whatever lines were skipped in between.
C14_SequenceNumbersDense ==
    [][\A p \in Procs :
         ParsingStep(p) =>
            LET entries == NextEntries(p)
                kept == SelectSeq(disk[NextFile(p)].lines, Emitted)
            IN  /\ Len(entries) = Len(kept)
                /\ \A j \in 1..Len(entries) :
                      /\ entries[j].sequence_num = j - 1
                      /\ entries[j].uuid = kept[j].uuid]_vars

\* a three-line file whose middle line was skipped has been parsed and its
\* third line is in the index with sequence_num 1
C14_Witness ==
    /\ pc["p1"] = "sweep"
    /\ "f1" \in sw["p1"].parsed
    /\ Len(disk["f1"].lines) = 3
    /\ Emitted(disk["f1"].lines[1])
    /\ ~Emitted(disk["f1"].lines[2])
    /\ Emitted(disk["f1"].lines[3])
    /\ \E d \in DOMAIN committed :
          d.uuid = disk["f1"].lines[3].uuid /\ d.sequence_num = 1

\* the text parse_raw_message tests and stores for a line
ExtractedContent(line) ==
    IF line.type = "summary" THEN line.summary ELSE line.content

\* the line is a JSON object of type user, assistant or summary with uuid,
\* sessionId, a parseable timestamp and content that is not empty once trimmed
Accepted(line) ==
    /\ ~line.blank
    /\ line.json
    /\ line.has_type
    /\ line.type \in {"user", "assistant", "summary"}
    /\ line.has_uuid
    /\ line.has_session_id
    /\ line.timestamp_ok
    /\ Trim(ExtractedContent(line)) # <<>>

\* C15: the parser emits a record for exactly the lines that are JSON objects
\* of type user, assistant or summary carrying uuid, sessionId, a parseable
\* timestamp and content that is non-empty after trimming; and every record
\* in the index has non-empty trimmed content.
C15_RecordIffAccepted ==
    [][/\ \A p \in Procs :
            ParsingStep(p) =>
               LET entries == NextEntries(p)
                   accepted == SelectSeq(disk[NextFile(p)].lines, Accepted)
               IN  /\ Len(entries) = Len(accepted)
                   /\ \A j \in 1..Len(entries) :
                         /\ entries[j].uuid = accepted[j].uuid
                         /\ entries[j].content = ExtractedContent(accepted[j])
       /\ \A d \in DOMAIN committed' : Trim(d.content) # <<>>]_vars

\* a file with a whitespace-only message and a padded message has been
\* parsed: the padded one is in the index, the other is not
C15_Witness ==
    /\ pc["p1"] = "sweep"
    /\ "f1" \in sw["p1"].parsed
    /\ \E i \in 1..Len(disk["f1"].lines) : disk["f1"].lines[i] = WhitespaceLine
    /\ \E d \in DOMAIN committed : d.uuid = PaddedLine.uuid /\ d.content = Padded
    /\ ~\E d \in DOMAIN committed : d.uuid = WhitespaceLine.uuid

\* C16: for an indexed session, get_session_messages called with a prefix of
\* the id of 8 characters or more returns the records it returns for the
\* full id.
C16_PrefixSameAsFullId ==
    [][\A p \in Procs : \A s \in SessionIds : \A a \in Prefixes(s) :
         (StartSession(p, a) /\ OfSession(committed, s) # {})
            => GetSessionMessages(committed, a) = GetSessionMessages(committed, s)]_vars

\* the log file of a session the argument names is on disk and needs indexing
StaleSource(a, f) ==
    /\ \E s \in SessionIds : StartsWith(s, a) /\ SessionJsonlPath(s) = f
    /\ disk[f] # NoFile
    /\ NeedsIndexing(LoadMetadata(sidecar), f, disk[f])

\* C20: a get_session_messages call for an id the tool accepts (full id or
\* prefix, with or without records in the index) whose session's log file
\* exists and needs indexing reindexes that one file (or fails) before it
\* answers.
C20_SessionReadRefreshesFirst ==
    [][\A p \in Procs : \A a \in SessionArgs : \A f \in Files :
         (StartSession(p, a) /\ StaleSource(a, f))
            => \/ pc'[p] = "sweep" /\ todo'[p] = <<f>>
               \/ result'[p] = "error"]_vars

(***************************************************************************)
(* The query side.  Uuids are text too: tantivy tokenises the uuid field   *)
(* at hyphens as it does the session_id field.                             *)
(***************************************************************************)
UuidAB == <<"a","a","-","b","b">>
UuidBA == <<"b","b","-","a","a">>
Uuid01 == <<"c","c","-","0","1">>
Uuid02 == <<"c","c","-","0","2">>
Uuid03 == <<"c","c","-","0","3">>
Uuid04 == <<"c","c","-","0","4">>

\* a session with a Warmup message between two messages, and a second
\* session in another project
Q1 == <<Msg("user", UuidAB, SidA, Hello), Msg("assistant", UuidBA, SidA, Warmup),
        Msg("user", Uuid01, SidA, Hello)>>
Q2 == <<Msg("user", Uuid02, SidC, Hello), Msg("assistant", Uuid03, SidC, World),
        Msg("user", Uuid04, SidC, Hello)>>

\* the project name (from cwd) and the working directory stored with the
\* records of a session
ProjA == <<"p","a">>
ProjB == <<"p","b">>
PathA == <<"/","w","/","p","a">>
PathB == <<"/","w","/","p","b">>
Project(session_id) == IF session_id = SidC THEN ProjB ELSE ProjA
ProjectPath(session_id) == IF session_id = SidC THEN PathB ELSE PathA

\* Regex::is_match for a pattern that is a literal
IsMatch(pattern, s) ==
    \E i \in 1..(Len(s) + 1 - Len(pattern)) : SubSeq(s, i, i + Len(pattern) - 1) = pattern

\* the words of a text (the tokens of the content field)
RECURSIVE WordsFrom(_, _, _, _)
WordsFrom(t, i, cur, acc) ==
    IF i > Len(t) THEN acc \cup {cur}
    ELSE IF IsWhitespace(t[i]) THEN WordsFrom(t, i + 1, <<>>, acc \cup {cur})
    ELSE WordsFrom(t, i + 1, Append(cur, t[i]), acc)

Words(t) == WordsFrom(t, 1, <<>>, {}) \ {<<>>}

\* SearchResult::is_displayable
IsDisplayable(m) ==
    /\ m.message_type \in {"user", "assistant", "summary"}
    /\ Trim(m.content) # Warmup

\* results.sort_by_key(|r| r.sequence_num) on the documents of a bag
RECURSIVE SortBySequenceNum(_)
SortBySequenceNum(b) ==
    IF DOMAIN b = {} THEN <<>>
    ELSE LET d == CHOOSE x \in DOMAIN b :
                     \A y \in DOMAIN b : x.sequence_num <= y.sequence_num
         IN  <<d>> \o SortBySequenceNum(b (-) SetToBag({d}))

\* Iterator::position: the first of the indexes a test holds at, 0 when
\* there is none
FirstIndex(indexes) ==
    IF indexes = {} THEN 0
    ELSE CHOOSE i \in indexes : \A k \in indexes : i <= k

Min(a, b) == IF a < b THEN a ELSE b
Max(a, b) == IF a > b THEN a ELSE b

(***************************************************************************)
(* SearchEngine::search: the documents the query text matches in one of    *)
(* the default fields (content, session_id, project), in the order of the  *)
(* collector (by score, or re-sorted by date), cut at the limit.           *)
(***************************************************************************)
Matches(d, text) ==
    \/ text \in Words(d.content)
    \/ text \in Tokens(d.session_id)
    \/ text = Project(d.session_id)

Hits(docs, text) == {d \in DOMAIN docs : Matches(d, text)}

\* the orders the matching documents can come in
Orders(S) ==
    {order \in [1..Cardinality(S) -> S] :
        \A i, j \in 1..Cardinality(S) : order[i] = order[j] => i = j}

TopDocs(order, limit) == SubSeq(order, 1, Min(limit, Len(order)))

(***************************************************************************)
(* SearchEngine::search_with_context: one row per match.  match_index      *)
(* counts from 0.                                                          *)
(***************************************************************************)
OwnContext(m, total) ==
    [matched_message |-> m, context_messages |-> <<m>>, match_index |-> 0,
     total_session_messages |-> total]

\* the row for a match, given the session's messages sorted by sequence_num
ContextWindow(session_messages, m, context_before, context_after) ==
    LET total == Len(SelectSeq(session_messages, IsDisplayable))
        sameUuid == {i \in 1..Len(session_messages) :
                        session_messages[i].uuid = m.uuid}
        sameSeq == {i \in 1..Len(session_messages) :
                       session_messages[i].sequence_num = m.sequence_num}
        idx == IF FirstIndex(sameUuid) # 0 THEN FirstIndex(sameUuid)
               ELSE FirstIndex(sameSeq)
    IN  IF session_messages = <<>> THEN OwnContext(m, 1)
        ELSE IF idx = 0 THEN OwnContext(m, total)
        ELSE LET start == Max(idx - context_before, 1)
                 end == Min(idx + context_after, Len(session_messages))
                 context_messages ==
                     SelectSeq(SubSeq(session_messages, start, end), IsDisplayable)
                 new_match_idx ==
                     IF IsDisplayable(session_messages[idx])
                     THEN Len(SelectSeq(SubSeq(session_messages, start, idx - 1),
                                        IsDisplayable))
                     ELSE 0
             IN  IF context_messages = <<>> THEN OwnContext(m, total)
                 ELSE [matched_message |-> m,
                       context_messages |-> context_messages,
                       match_index |-> new_match_idx,
                       total_session_messages |-> total]

\* get_session_messages is called once for the match
ContextRow(docs, m, context_before, context_after) ==
    CHOOSE row \in {ContextWindow(session_messages, m, context_before, context_after) :
                       session_messages \in
                          {SortBySequenceNum(GetSessionMessages(docs, m.session_id))}} :
        TRUE

RECURSIVE ContextRows(_, _, _, _, _, _)
ContextRows(docs, matches, i, context_before, context_after, results_with_context) ==
    IF i > Len(matches) THEN results_with_context
    ELSE ContextRows(docs, matches, i + 1, context_before, context_after,
                     Append(results_with_context,
                            ContextRow(docs, matches[i], context_before, context_after)))

SearchWithContext(docs, order, limit, context_before, context_after) ==
    ContextRows(docs, TopDocs(order, limit), 1, context_before, context_after, <<>>)

(***************************************************************************)
(* The filter of the front ends (cli/commands.rs search_conversations and  *)
(* mcp/server.rs tool_search_conversations): exclusions, then one row per  *)
(* session, then take(limit).  current is the MCP caller's own session     *)
(* (empty for the CLI, and when the caller asks to include it).            *)
(***************************************************************************)
Excluded(r, current, exclude_projects, exclude_regexes) ==
    LET session == r.matched_message.session_id
    IN  \/ session \in current
        \/ Project(session) \in exclude_projects
        \/ \E regex \in exclude_regexes :
              IsMatch(regex, Project(session)) \/ IsMatch(regex, ProjectPath(session))

\* a filter that does not look at the sessions already seen
RECURSIVE FilterRowsNoSeen(_, _, _, _, _, _, _)
FilterRowsNoSeen(rows, i, session_seen, out, current, exclude_projects, exclude_regexes) ==
    IF i > Len(rows) THEN out
    ELSE IF Excluded(rows[i], current, exclude_projects, exclude_regexes)
    THEN FilterRowsNoSeen(rows, i + 1, session_seen, out, current,
                          exclude_projects, exclude_regexes)
    ELSE FilterRowsNoSeen(rows, i + 1, session_seen, Append(out, rows[i]), current,
                          exclude_projects, exclude_regexes)

RECURSIVE FilterRows(_, _, _, _, _, _, _)
FilterRows(rows, i, session_seen, out, current, exclude_projects, exclude_regexes) ==
    IF i > Len(rows) THEN out
    ELSE IF Excluded(rows[i], current, exclude_projects, exclude_regexes)
    THEN FilterRows(rows, i + 1, session_seen, out, current,
                    exclude_projects, exclude_regexes)
    ELSE IF rows[i].matched_message.session_id \in session_seen
    THEN FilterRows(rows, i + 1, session_seen, out, current,
                    exclude_projects, exclude_regexes)
    ELSE FilterRows(rows, i + 1,
                    session_seen \cup {rows[i].matched_message.session_id},
                    Append(out, rows[i]), current, exclude_projects, exclude_regexes)

(***************************************************************************)
(* The stale-index check of tool_search_conversations.  f1 is the log of   *)
(* SidA under the directory of the working directory PathA, f2 the log of  *)
(* SidC under that of PathB.                                               *)
(***************************************************************************)
\* cwd.to_string_lossy().replace(['/', '\\', '.'], "-")
RECURSIVE EncodeDir(_)
EncodeDir(cwd) ==
    IF cwd = <<>> THEN <<>>
    ELSE <<IF Head(cwd) \in {"/", "\\", "."} THEN "-" ELSE Head(cwd)>>
            \o EncodeDir(Tail(cwd))

\* the directory under projects/ a log file is in, and its file stem
ProjectDir(f) == EncodeDir(ProjectPath(IF f = "f1" THEN SidA ELSE SidC))
FileStem(f) == IF f = "f1" THEN SidA ELSE SidC

\* glob(projects/<cwd_str>/*.jsonl).max_by_key(modified): the last of the
\* newest files of the directory, as a set of at most one file
CurrentSessionFile(d, cwd) ==
    LET found == {i \in 1..Len(FileOrder) :
                     /\ d[FileOrder[i]] # NoFile
                     /\ ProjectDir(FileOrder[i]) = EncodeDir(cwd)}
        newest == {i \in found :
                      \A k \in found :
                         \/ d[FileOrder[k]].mtime < d[FileOrder[i]].mtime
                         \/ d[FileOrder[k]].mtime = d[FileOrder[i]].mtime /\ k <= i}
    IN  {FileOrder[i] : i \in newest}

\* all_files without the files named as the current session file is
FilesForStaleCheck(all_files, current_session_file) ==
    LET current_session_name == {FileStem(c) : c \in current_session_file}
        Other_(f) == FileStem(f) \notin current_session_name
    IN  SelectSeq(all_files, Other_)

\* CacheManager::quick_health_check: (stale, new_files)
QuickHealthCheck(metadata, d, all_jsonl_files) ==
    [stale_count |->
        Cardinality({f \in DOMAIN metadata.indexed_files :
                        /\ d[f] # NoFile
                        /\ \/ d[f].size # metadata.indexed_files[f].size
                           \/ d[f].mtime # metadata.indexed_files[f].modified}),
     new_count |->
        Cardinality({i \in 1..Len(all_jsonl_files) :
                        all_jsonl_files[i] \notin DOMAIN metadata.indexed_files})]

\* a reply that looks at the modified files only
SearchReplyStaleOnly(front, filtered, stale_count, new_count) ==
    IF filtered # <<>> THEN [is_error |-> FALSE, text |-> "results"]
    ELSE IF front = "mcp" /\ stale_count > 0
    THEN [is_error |-> TRUE, text |-> "stale"]
    ELSE [is_error |-> FALSE, text |-> "no_results"]

\* what the front end answers: the rows, "No results found.", or (MCP) the
\* error payload that asks for a reindex
SearchReply(front, filtered, stale_count, new_count) ==
    IF filtered # <<>> THEN [is_error |-> FALSE, text |-> "results"]
    ELSE IF front = "mcp" /\ (stale_count > 0 \/ new_count > 0)
    THEN [is_error |-> TRUE, text |-> "stale"]
    ELSE [is_error |-> FALSE, text |-> "no_results"]

\* the front end's call of search_with_context with limit * 3, its filter
\* and take(limit); the call returns what it was given and what it computed
SearchResponse(p, front, text, limit, context_before, context_after, current, exclude_projects, exclude_regexes, health) ==
    \E hits \in {Hits(committed, text)} :
    \E order \in Orders(hits) :
    \E results \in {SearchWithContext(committed, order, limit * 3,
                                      context_before, context_after)} :
    \E kept \in {FilterRows(results, 1, {}, <<>>, current, exclude_projects,
                            exclude_regexes)} :
       Finish(p, [front |-> front, text |-> text, limit |-> limit,
                  context_before |-> context_before,
                  context_after |-> context_after,
                  current |-> current, exclude_projects |-> exclude_projects,
                  exclude_regexes |-> exclude_regexes,
                  results |-> results,
                  filtered |-> SubSeq(kept, 1, Min(limit, Len(kept))),
                  health |-> health,
                  reply |-> SearchReply(front, SubSeq(kept, 1, Min(limit, Len(kept))),
                                        health.stale_count, health.new_count)],
              holds)

\* cli/commands.rs search_conversations, after auto_index and the open of
\* the SearchEngine
CliSearchConversations(p, text, limit, context_before, context_after, exclude_projects, exclude_regexes) ==
    /\ pc[p] = "reading"
    /\ SearchResponse(p, "cli", text, limit, context_before, context_after,
                      {}, exclude_projects, exclude_regexes,
                      [stale_count |-> 0, new_count |-> 0,
                       current_session_file |-> {}])
    /\ UNCHANGED <<envVars, stdioVars, indexVars, op, ops, cm, todo, sw, prev, now>>

\* mcp/server.rs tool_search_conversations on the server's SearchEngine, by
\* a server whose working directory is cwd
McpSearchConversations(p, text, limit, context_before, context_after, cwd, include_current_session, exclude_projects, exclude_regexes) ==
    /\ Begin(p, "search_conversations")
    /\ metaJson = "ok"
    /\ LET current_session_file == CurrentSessionFile(disk, cwd)
           files_for_stale_check ==
               FilesForStaleCheck(Glob(disk), current_session_file)
           current_session_id ==
               IF include_current_session THEN {}
               ELSE {FileStem(f) : f \in current_session_file}
           counts == QuickHealthCheck(LoadMetadata(sidecar), disk,
                                      files_for_stale_check)
       IN  SearchResponse(p, "mcp", text, limit, context_before, context_after,
                          current_session_id, exclude_projects, exclude_regexes,
                          [stale_count |-> counts.stale_count,
                           new_count |-> counts.new_count,
                           current_session_file |-> current_session_file])
    /\ UNCHANGED <<envVars, stdioVars, indexVars, cm, todo, sw, prev, now>>

(***************************************************************************)
(* SearchEngine::get_messages_by_uuid, for one uuid: the query on the      *)
(* uuid's hyphen segments, the first ten hits, and the first of them that  *)
(* is the uuid or starts with it (NoEntry when there is none).             *)
(***************************************************************************)
TOP_UUID_HITS == 10

UuidHits(docs, uuid) ==
    LET segments == Split(uuid)
    IN  {d \in DOMAIN docs :
            \A i \in 1..Len(segments) : segments[i] \in Tokens(d.uuid)}

\* the sets of hits the collector can return
TopHits(hits) ==
    IF Cardinality(hits) <= TOP_UUID_HITS THEN {hits}
    ELSE {top \in SUBSET hits : Cardinality(top) = TOP_UUID_HITS}

\* a lookup that takes the first hit without comparing its uuid
UuidPicksAnyHit(docs, uuid) ==
    UNION {IF top = {} THEN {NoEntry} ELSE top : top \in TopHits(UuidHits(docs, uuid))}

UuidPicks(docs, uuid) ==
    UNION {LET found == {d \in top : d.uuid = uuid \/ StartsWith(d.uuid, uuid)}
           IN  IF found = {} THEN {NoEntry} ELSE found :
           top \in TopHits(UuidHits(docs, uuid))}

IsEntry(e) == e # NoEntry

\* mcp/server.rs tool_get_messages -> get_messages_by_uuid
McpGetMessages(p, ids) ==
    /\ Begin(p, "get_messages")
    /\ metaJson = "ok"
    /\ Len(ids) > 0
    /\ \E found \in [1..Len(ids) -> DOMAIN committed \cup {NoEntry}] :
          /\ \A i \in 1..Len(ids) : found[i] \in UuidPicks(committed, ids[i])
          /\ Finish(p, [ids |-> ids, messages |-> SelectSeq(found, IsEntry)], holds)
    /\ UNCHANGED <<envVars, stdioVars, indexVars, cm, todo, sw, prev, now>>

(***************************************************************************)
(* update_incremental run to its end over the given files from an index,   *)
(* the fingerprints and total_entries in acc: what it ends with, computed  *)
(* file by file as the loop does.                                          *)
(***************************************************************************)
RECURSIVE FreshSweep(_, _, _, _)
FreshSweep(d, files, i, acc) ==
    IF i > Len(files) THEN acc
    ELSE LET f == files[i]
             entries == ParseFile(d[f])
         IN  IF d[f] = NoFile \/ ParseFails(d[f]) THEN FreshSweep(d, files, i + 1, acc)
             ELSE FreshSweep(d, files, i + 1,
                     [docs |-> IndexFile(acc.docs, entries),
                      indexed_files |-> MapInsert(acc.indexed_files, f,
                                          Fingerprint(d[f], Len(entries), 0)),
                      total_entries |-> acc.total_entries + Len(entries)])

(***************************************************************************)
(* mcp/server.rs tool_get_session_messages, and a client that reads a      *)
(* session page by page as tool_summarize_session's prompt tells it to:    *)
(* first call without offset, then a call with the offset of each          *)
(* "+more: offset=N" trailer until a reply has none.                       *)
(***************************************************************************)
\* mcp/server.rs:745, the page size when the call gives none
DEFAULT_PAGE_LIMIT == 50

\* Option<u64> arguments: a set of at most one number
ArgOr(arg, default) == IF arg = {} THEN default ELSE CHOOSE n \in arg : TRUE

\* ensure_session_fresh run to its end: the index and the sidecar after it.
\* The session's log file is swept alone when it exists and needs indexing.
EnsureSessionFresh(docs, sc, d, session_id, at) ==
    LET path == SessionJsonlPath(session_id)
        metadata == LoadMetadata(sc)
        stale == /\ GetSessionMessages(docs, session_id) # EmptyBag
                 /\ path # None
                 /\ d[path] # NoFile
                 /\ NeedsIndexing(metadata, path, d[path])
    IN  IF ~stale THEN [stale |-> FALSE, docs |-> docs, sidecar |-> sc]
        ELSE LET swept == FreshSweep(d, <<path>>, 1,
                              [docs |-> docs,
                               indexed_files |-> metadata.indexed_files,
                               total_entries |-> metadata.total_entries])
             IN  [stale |-> TRUE, docs |-> swept.docs,
                  sidecar |-> [indexed_files |-> swept.indexed_files,
                               total_entries |-> swept.total_entries,
                               last_full_scan |-> at]]

\* (start, end) of the page: center_on mode (saturating_sub, min) or
\* offset/limit mode.  The offsets and limits drawn here are far from the
\* width of usize, so offset + limit is the sum.
PageWindow(total, center_idx, before, after, offset, limit) ==
    IF center_idx # {}
    THEN LET idx == CHOOSE i \in center_idx : TRUE
         IN  [start |-> Max(idx - before, 0), end |-> Min(idx + after + 1, total)]
    ELSE [start |-> Min(offset, total), end |-> Min(offset + limit, total)]

\* the reply of tool_get_session_messages over an index: the error payload
\* when the session has no record, else the page &messages[start..end] of
\* the displayable messages sorted by sequence_num, and the offset of the
\* "+more" trailer when end < total
SessionReply(docs, session_id, center_on, context, offset, limit) ==
    LET found == GetSessionMessages(docs, session_id)
        messages == SelectSeq(SortBySequenceNum(found), IsDisplayable)
        total == Len(messages)
        center_idx == IF center_on = {} THEN {}
                      ELSE {FirstIndex({i - 1 : i \in {k \in 1..total :
                               \E uuid \in center_on :
                                  StartsWith(messages[k].uuid, uuid)}})}
        w == PageWindow(total, center_idx, ArgOr(context.before, ArgOr(context.c, 10)),
                        ArgOr(context.after, ArgOr(context.c, 10)),
                        ArgOr(offset, 0), ArgOr(limit, DEFAULT_PAGE_LIMIT))
    IN  IF found = EmptyBag
        THEN [is_error |-> TRUE, total |-> 0, start |-> 0, end |-> 0,
              page |-> <<>>, more |-> {}]
        ELSE [is_error |-> FALSE, total |-> total, start |-> w.start, end |-> w.end,
              page |-> SubSeq(messages, w.start + 1, w.end),
              more |-> IF w.end < total THEN {w.end} ELSE {}]

\* one call of the tool; `read` is what the client has read so far
GetSessionMessagesCall(p, session_id, center_on, context, offset, limit, read) ==
    /\ metaJson = "ok"
    /\ LET fresh == EnsureSessionFresh(committed, sidecar, disk, session_id, now + 1)
       IN  IF fresh.stale /\ ~CanOpenIndexer(holds)
           THEN /\ result' = [result EXCEPT ![p] =
                                [is_error |-> TRUE, total |-> 0, start |-> 0, end |-> 0,
                                 page |-> <<>>, more |-> {}, session_id |-> session_id,
                                 offset |-> offset, limit |-> limit, read |-> read]]
                /\ UNCHANGED <<committed, sidecar, prev, now>>
           ELSE /\ committed' = fresh.docs
                /\ sidecar' = fresh.sidecar
                /\ prev' = IF fresh.stale THEN NoPrev ELSE prev
                /\ now' = IF fresh.stale THEN now + 1 ELSE now
                /\ LET reply == SessionReply(fresh.docs, session_id, center_on,
                                             context, offset, limit)
                   IN  result' = [result EXCEPT ![p] =
                                    [is_error |-> reply.is_error, total |-> reply.total,
                                     start |-> reply.start, end |-> reply.end,
                                     page |-> reply.page, more |-> reply.more,
                                     session_id |-> session_id, offset |-> offset,
                                     limit |-> limit, read |-> read \o reply.page]]
    /\ pc' = [pc EXCEPT ![p] = "idle"]
    /\ UNCHANGED <<envVars, stdioVars, dirExists, metaJson, lockLinked, holds, cm,
                   todo, sw>>

NoContext == [c |-> {}, before |-> {}, after |-> {}]

\* the tool called once with any of its arguments
McpGetSessionMessages(p, session_id, center_on, context, offset, limit) ==
    /\ Begin(p, "get_session_messages")
    /\ GetSessionMessagesCall(p, session_id, center_on, context, offset, limit, <<>>)

\* the client's first call: no offset, the page size it has chosen
PagingFirst(p, session_id, limit) ==
    /\ Begin(p, "paging")
    /\ GetSessionMessagesCall(p, session_id, {}, NoContext, {}, limit, <<>>)

\* the client's next call: the offset of the trailer of the last reply
PagingNext(p) ==
    /\ pc[p] = "idle"
    /\ op[p] = "paging"
    /\ result[p].more # {}
    /\ GetSessionMessagesCall(p, result[p].session_id, {}, NoContext,
                              result[p].more, result[p].limit, result[p].read)
    /\ UNCHANGED <<op, ops>>

(***************************************************************************)
(* A front end over an index that holds two sessions, with one call left   *)
(* to make.                                                                *)
(***************************************************************************)
MaxLimit == 2
MaxContext == 1
MaxIds == 2

QueryCorpus == [f \in Files |-> LogFile(IF f = "f1" THEN Q1 ELSE Q2, TRUE)]
QueryTexts == {Hello, World, Warmup}
QueryUuids == {UuidAB, UuidBA, Uuid01, Uuid02, Uuid03, Uuid04}
\* exclusion settings: none, a project by name, a pattern that matches a path
Exclusions ==
    {[projects |-> {}, regexes |-> {}],
     [projects |-> {ProjB}, regexes |-> {}],
     [projects |-> {}, regexes |-> {<<"/","p","b">>}]}
\* working directories of the server: that of f1's project and another
PathElse == <<"/","t",".","x">>
Cwds == {PathA, PathElse}

\* the arguments of get_session_messages: absent, or a number; every page
\* size from 0 on is accepted
LimitArgs == {{}} \cup {{n} : n \in 0..MaxLimit}
OffsetArgs == {{}, {1}, {MaxLimit + 1}}
\* -C alone, -B and -A, or none of them
ContextArgs ==
    {NoContext} \cup {[c |-> {n}, before |-> {}, after |-> {}] : n \in 0..MaxContext}
                \cup {[c |-> {}, before |-> {MaxContext}, after |-> {0}]}
\* a uuid, a uuid of another session, a prefix of uuids
CenterOns == {{UuidBA}, {Uuid03}, {<<"c","c">>}}
\* the sessions asked for: by id, and one by the first segment of its id
PagedSessions == SessionIds \cup {SubSeq(SidC, 1, 8)}

InitQuery ==
    /\ disk = QueryCorpus
    /\ envWrites = MaxEnvWrites
    /\ dirExists = TRUE
    /\ metaJson = "ok"
    /\ committed = IndexFile(IndexFile(EmptyBag, ParseFile(QueryCorpus["f1"])),
                             ParseFile(QueryCorpus["f2"]))
    /\ sidecar = [indexed_files |->
                     [f \in Files |->
                         Fingerprint(QueryCorpus[f], Len(ParseFile(QueryCorpus[f])), 1)],
                  total_entries |-> 6, last_full_scan |-> 1]
    /\ lockLinked = TRUE
    /\ holds = {}
    /\ pc = [p \in Procs |-> "idle"]
    /\ op = [p \in Procs |-> None]
    /\ result = [p \in Procs |-> None]
    /\ ops = [p \in Procs |-> MaxOps - 1]
    /\ cm = [p \in Procs |-> DefaultMetadata]
    /\ todo = [p \in Procs |-> <<>>]
    /\ sw = [p \in Procs |-> NoSweep]
    /\ prev = NoPrev
    /\ now = 1
    /\ NoStdio

NextQuery ==
    \/ StartSearch("p1")
    \/ AutoIndexOpen("p1")
    \/ SweepFile("p1")
    \/ SweepEnd("p1")
    \/ ReadOpen("p1")
    \/ \E text \in QueryTexts, limit \in 1..MaxLimit,
          context_before \in 0..MaxContext, context_after \in 0..MaxContext,
          x \in Exclusions :
          CliSearchConversations("p1", text, limit, context_before, context_after,
                                 x.projects, x.regexes)
    \/ \E text \in QueryTexts, limit \in 1..MaxLimit,
          context_before \in 0..MaxContext, context_after \in 0..MaxContext,
          cwd \in Cwds, include_current_session \in BOOLEAN, x \in Exclusions :
          McpSearchConversations("p1", text, limit, context_before, context_after,
                                 cwd, include_current_session, x.projects,
                                 x.regexes)
    \/ \E ids \in SeqsUpTo(QueryUuids, MaxIds) : McpGetMessages("p1", ids)
    \/ \E session_id \in PagedSessions, center_on \in CenterOns, context \in ContextArgs :
          McpGetSessionMessages("p1", session_id, center_on, context, {}, {})
    \/ \E session_id \in PagedSessions, offset \in OffsetArgs, limit \in LimitArgs :
          McpGetSessionMessages("p1", session_id, {}, NoContext, offset, limit)
    \/ \E session_id \in PagedSessions, limit \in LimitArgs :
          PagingFirst("p1", session_id, limit)
    \/ PagingNext("p1")

SpecQuery == InitQuery /\ [][NextQuery]_vars

\* the step is one in which a front end's search returns its response
SearchReturns(p) ==
    \/ pc[p] = "reading" /\ pc'[p] = "idle"
    \/ op'[p] = "search_conversations" /\ ops'[p] = ops[p] + 1

\* C17: every row search_with_context returns has at most B + 1 + A context
\* messages, all displayable, all of the match's session, in ascending
\* sequence_num order and within B before and A after the match (clipped at
\* the ends of the session), and the message at match_index is the match,
\* also when the match is not displayable.
C17_ContextWindow ==
    [][\A p \in Procs :
         SearchReturns(p) =>
            \A i \in 1..Len(result'[p].results) :
               LET r == result'[p]
                   m == r.results[i].matched_message
                   c == r.results[i].context_messages
                   match_index == r.results[i].match_index
               IN  /\ Len(c) <= r.context_before + 1 + r.context_after
                   /\ \A k \in 1..Len(c) :
                         /\ IsDisplayable(c[k])
                         /\ c[k].session_id = m.session_id
                         /\ c[k].sequence_num >= m.sequence_num - r.context_before
                         /\ c[k].sequence_num <= m.sequence_num + r.context_after
                   /\ \A k \in 1..(Len(c) - 1) : c[k].sequence_num < c[k + 1].sequence_num
                   /\ match_index + 1 \in 1..Len(c)
                   /\ c[match_index + 1] = m]_vars

\* the row is dropped by the exclusions: the project list, the patterns on
\* project and path and, when withCurrent, the caller's current session
Drops(r, row, withCurrent) ==
    LET session == row.matched_message.session_id
    IN  \/ withCurrent /\ session \in r.current
        \/ Project(session) \in r.exclude_projects
        \/ \E regex \in r.exclude_regexes :
              IsMatch(regex, Project(session)) \/ IsMatch(regex, ProjectPath(session))

\* the j-th fetched row passes the exclusions and no earlier row that passes
\* them is of its session
FirstOfSession(r, j, withCurrent) ==
    /\ ~Drops(r, r.results[j], withCurrent)
    /\ \A k \in 1..(j - 1) :
          \/ Drops(r, r.results[k], withCurrent)
          \/ r.results[k].matched_message.session_id
                # r.results[j].matched_message.session_id

Rank(r, j, withCurrent) ==
    Cardinality({k \in 1..j : FirstOfSession(r, k, withCurrent)})

\* limit * 3 matches are fetched; at most limit rows are output, of distinct
\* sessions, none dropped by the exclusions, and they are, in the order
\* fetched, the first rows that pass the exclusions and start a session
DedupBySession(r, withCurrent) ==
    /\ Len(r.results) = Min(r.limit * 3, Cardinality(Hits(committed, r.text)))
    /\ Len(r.filtered) <= r.limit
    /\ \A a, b \in 1..Len(r.filtered) :
          a # b => r.filtered[a].matched_message.session_id
                      # r.filtered[b].matched_message.session_id
    /\ \A a \in 1..Len(r.filtered) : ~Drops(r, r.filtered[a], withCurrent)
    /\ Len(r.filtered) =
          Min(r.limit,
              Cardinality({j \in 1..Len(r.results) : FirstOfSession(r, j, withCurrent)}))
    /\ \A j \in 1..Len(r.results) :
          (FirstOfSession(r, j, withCurrent) /\ Rank(r, j, withCurrent) <= r.limit)
             => r.filtered[Rank(r, j, withCurrent)] = r.results[j]

\* C18 (as stated): both front ends fetch limit * 3 matches and output at
\* most limit rows, no two of one session, none excluded by project or
\* pattern: in the order fetched, the first matches that pass these
\* exclusions and have a session not seen yet.
C18_FirstUnseenSessions ==
    [][\A p \in Procs : SearchReturns(p) => DedupBySession(result'[p], FALSE)]_vars

\* C18 (amended): the same, where the exclusions of the MCP front end also
\* drop the matches of the caller's current session unless the caller asks
\* to include it.
C18_FirstUnseenSessionsButCurrent ==
    [][\A p \in Procs : SearchReturns(p) => DedupBySession(result'[p], TRUE)]_vars

\* an MCP search has returned: three of the four matches were fetched, the
\* first of them is of the caller's current session and was dropped, and
\* the one row output is of the other session
C18_Witness ==
    /\ op["p1"] = "search_conversations"
    /\ pc["p1"] = "idle"
    /\ result["p1"].limit = 1
    /\ result["p1"].current = {SidA}
    /\ Len(result["p1"].results) = 3
    /\ Cardinality(Hits(committed, result["p1"].text)) = 4
    /\ result["p1"].results[1].matched_message.session_id = SidA
    /\ result["p1"].results[2].matched_message.session_id = SidC
    /\ result["p1"].results[3].matched_message.session_id = SidC
    /\ Len(result["p1"].filtered) = 1
    /\ result["p1"].filtered[1] = result["p1"].results[2]

\* C19: get_messages_by_uuid called with uuids of records in the committed
\* index returns one record per requested id, the record of that id, in the
\* order of the ids.
C19_MessagesByUuidInOrder ==
    [][\A p \in Procs :
         (/\ op'[p] = "get_messages"
          /\ ops'[p] = ops[p] + 1
          /\ \A i \in 1..Len(result'[p].ids) :
                \E d \in DOMAIN committed : d.uuid = result'[p].ids[i])
         => /\ Len(result'[p].messages) = Len(result'[p].ids)
            /\ \A i \in 1..Len(result'[p].ids) :
                  /\ result'[p].messages[i] \in DOMAIN committed
                  /\ result'[p].messages[i].uuid = result'[p].ids[i]]_vars

\* two records whose uuids have the same segments in another order were
\* asked for, in the reverse of the order they were appended in
C19_Witness ==
    /\ op["p1"] = "get_messages"
    /\ pc["p1"] = "idle"
    /\ result["p1"].ids = <<UuidBA, UuidAB>>
    /\ Len(result["p1"].messages) = 2
    /\ result["p1"].messages[1].uuid = UuidBA
    /\ result["p1"].messages[2].uuid = UuidAB

(***************************************************************************)
(* The MCP server over an index that is behind the log files: some of the  *)
(* files were indexed (at time 1) and since then each file was left as it  *)
(* was, appended to, or removed, or is there without having been indexed.  *)
(***************************************************************************)
Uuid05 == <<"c","c","-","0","5">>
Uuid06 == <<"c","c","-","0","6">>

\* the content a log file had when it was indexed, and after an append
IndexedLines(f) == IF f = "f1" THEN Q1 ELSE Q2
AppendedLines(f) ==
    IF f = "f1" THEN Append(Q1, Msg("assistant", Uuid05, SidA, World))
    ELSE Append(Q2, Msg("assistant", Uuid06, SidC, Other))

FileStates == {"same", "appended", "gone"}

HealthDisk(state) ==
    [f \in Files |->
        IF state[f] = "gone" THEN NoFile
        ELSE IF state[f] = "same" THEN LogFile(IndexedLines(f), TRUE)
        ELSE [LogFile(AppendedLines(f), TRUE) EXCEPT !.mtime = 2]]

HealthSidecar(indexed) ==
    [indexed_files |->
        [f \in indexed |-> Fingerprint(LogFile(IndexedLines(f), TRUE), 3, 1)],
     total_entries |-> 3 * Cardinality(indexed), last_full_scan |-> 1]

HealthIndex(indexed) ==
    IndexFile(IndexFile(EmptyBag,
                        IF "f1" \in indexed THEN ParseLines(Q1, 1, <<>>, 0) ELSE <<>>),
              IF "f2" \in indexed THEN ParseLines(Q2, 1, <<>>, 0) ELSE <<>>)

InitHealth ==
    /\ \E indexed \in SUBSET Files, state \in [Files -> FileStates] :
          /\ disk = HealthDisk(state)
          /\ committed = HealthIndex(indexed)
          /\ sidecar = HealthSidecar(indexed)
    /\ envWrites = MaxEnvWrites
    /\ dirExists = TRUE
    /\ metaJson = "ok"
    /\ lockLinked = TRUE
    /\ holds = {}
    /\ pc = [p \in Procs |-> "idle"]
    /\ op = [p \in Procs |-> None]
    /\ result = [p \in Procs |-> None]
    /\ ops = [p \in Procs |-> MaxOps - 1]
    /\ cm = [p \in Procs |-> DefaultMetadata]
    /\ todo = [p \in Procs |-> <<>>]
    /\ sw = [p \in Procs |-> NoSweep]
    /\ prev = NoPrev
    /\ now = 2
    /\ NoStdio

HealthTexts == {Hello, Other}
HealthCwds == {PathA, PathB, PathElse}
HealthExclusions == {x \in Exclusions : x.regexes = {}}

NextHealth ==
    \E text \in HealthTexts, limit \in 1..MaxLimit, cwd \in HealthCwds,
       include_current_session \in BOOLEAN, x \in HealthExclusions :
       McpSearchConversations("p1", text, limit, 0, 0, cwd,
                              include_current_session, x.projects, x.regexes)

SpecHealth == InitHealth /\ [][NextHealth]_vars

\* the step is one in which the MCP server answers a search
McpSearchReturns(p) ==
    op'[p] = "search_conversations" /\ ops'[p] = ops[p] + 1

\* the log file was modified or added since the last indexing
ChangedSinceIndexing(f) ==
    disk[f] # NoFile /\ NeedsIndexing(LoadMetadata(sidecar), f, disk[f])

\* C21: in the MCP search path, when the currently active session file (the
\* newest log file in the directory of the server's working directory) is
\* the only file modified or added since the last indexing, the stale count
\* and the new count used for the stale-index reply are both zero.
C21_ActiveSessionNotCounted ==
    [][\A p \in Procs :
         (/\ McpSearchReturns(p)
          /\ result'[p].health.current_session_file # {}
          /\ \A f \in Files :
                ChangedSinceIndexing(f) <=> f \in result'[p].health.current_session_file)
         => /\ result'[p].health.stale_count = 0
            /\ result'[p].health.new_count = 0]_vars

\* C22: search_conversations on the MCP server replies with the error
\* payload that suggests a reindex if and only if the filtered result list
\* is empty and the quick health check reported a stale or a new file; with
\* an empty result and no stale and no new file it replies "No results
\* found." without the error flag.
C22_StaleReplyIffEmptyAndStale ==
    [][\A p \in Procs :
         McpSearchReturns(p) =>
            LET r == result'[p]
                counts == QuickHealthCheck(
                              LoadMetadata(sidecar), disk,
                              FilesForStaleCheck(Glob(disk),
                                                 r.health.current_session_file))
                stale == counts.stale_count > 0 \/ counts.new_count > 0
            IN  /\ r.reply.is_error <=> (r.filtered = <<>> /\ stale)
                /\ r.reply.is_error <=> r.reply.text = "stale"
                /\ (r.filtered = <<>> /\ ~stale) => r.reply.text = "no_results"]_vars

\* a search that matched nothing was answered while a log file that was never
\* indexed is on disk and no indexed file was modified: the reply is the
\* error payload
C22_Witness ==
    /\ op["p1"] = "search_conversations"
    /\ pc["p1"] = "idle"
    /\ result["p1"].filtered = <<>>
    /\ result["p1"].health.stale_count = 0
    /\ result["p1"].health.new_count > 0
    /\ result["p1"].reply.is_error

(***************************************************************************)
(* mcp/server.rs run_mcp_server: the loop that reads request lines from    *)
(* stdin and writes one response line per request to stdout.  A line is    *)
(* its text as the loop tests it, what serde_json makes of it, and the id  *)
(* of the request it carries (its place in the input).                     *)
(***************************************************************************)
MaxRequests == 3

\* shared with JSON-RPC: the codes run_mcp_server and handle_request answer with
PARSE_ERROR == -32700
INTERNAL_ERROR == -32603

RequestKinds ==
    {"empty", "blank", "invalid_utf8", "bad_json", "tools_list",
     "call_missing_query", "unknown_method", "respawn_server"}

\* the characters of a line of the kind ("{" stands for a JSON text)
LineText(kind) ==
    IF kind = "empty" THEN <<>>
    ELSE IF kind = "blank" THEN <<" ", "\t">>
    ELSE IF kind = "bad_json" THEN <<"{">>
    ELSE <<"{", "}">>

InputLine(kind, id) == [kind |-> kind, id |-> id, text |-> LineText(kind)]

RECURSIVE InputFrom(_, _)
InputFrom(kinds, i) ==
    IF i > Len(kinds) THEN <<>>
    ELSE <<InputLine(kinds[i], i)>> \o InputFrom(kinds, i + 1)

NoRequest == [kind |-> "none", id |-> 0, text |-> <<>>]
NoResponse == [id |-> 0, code |-> 0]

\* the loop is at next_line, with nothing in hand
Serving(input) ==
    [pc |-> "read", input |-> input, request |-> NoRequest,
     response |-> NoResponse, respawn |-> FALSE]

\* serde_json::from_str::<JsonRpcRequest> succeeds on the line
IsJsonRpcRequest(line) ==
    line.kind \in {"tools_list", "call_missing_query", "unknown_method",
                   "respawn_server"}

\* McpServer::handle_request: the response to a request.  id 0 stands for
\* null, code 0 for a response with a result.
HandleRequest(request) ==
    IF request.kind \in {"tools_list", "respawn_server"}
    THEN [id |-> request.id, code |-> 0]
    ELSE [id |-> request.id, code |-> INTERNAL_ERROR]

\* reader.next_line().await? and the tests that follow it
ServerReadLine ==
    /\ serving.pc = "read"
    /\ IF stdin = <<>>
       THEN /\ serving' = [serving EXCEPT !.pc = "exited"]
            /\ UNCHANGED stdin
       ELSE /\ stdin' = Tail(stdin)
            /\ serving' =
                  IF Head(stdin).kind = "invalid_utf8"
                  THEN [serving EXCEPT !.pc = "exited"]
                  ELSE IF Trim(Head(stdin).text) = <<>> THEN serving
                  ELSE IF ~IsJsonRpcRequest(Head(stdin))
                  THEN [serving EXCEPT !.pc = "write",
                                       !.response = [id |-> 0, code |-> PARSE_ERROR]]
                  ELSE [serving EXCEPT !.pc = "handle", !.request = Head(stdin)]
    /\ UNCHANGED <<envVars, indexVars, stdout, holds, pc, op, result, ops, cm,
                   todo, sw, prev, now>>

\* server.handle_request(request).await; tool_respawn spawns the task that
\* replaces the process
ServerHandle ==
    /\ serving.pc = "handle"
    /\ serving' = [serving EXCEPT
                     !.pc = "write",
                     !.response = HandleRequest(serving.request),
                     !.respawn = @ \/ serving.request.kind = "respawn_server"]
    /\ UNCHANGED <<envVars, indexVars, stdin, stdout, holds, pc, op, result, ops,
                   cm, todo, sw, prev, now>>

\* stdout.write_all(response_json), write_all("\n"), flush
ServerWrite ==
    /\ serving.pc = "write"
    /\ stdout' = Append(stdout, serving.response)
    /\ serving' = [serving EXCEPT !.pc = "read", !.request = NoRequest,
                                  !.response = NoResponse]
    /\ UNCHANGED <<envVars, indexVars, stdin, holds, pc, op, result, ops, cm,
                   todo, sw, prev, now>>

\* the task tool_respawn spawned wakes up after the response to the respawn
\* request was written and calls execvp: the process image is replaced,
\* whatever the loop has in hand and the lines its reader had buffered are
\* gone, and the new process starts at the top of the loop
ServerExec ==
    /\ serving.respawn
    /\ serving.pc \in {"read", "handle", "write"}
    /\ ~(serving.pc \in {"handle", "write"}
         /\ serving.request.kind = "respawn_server")
    /\ \E buffered \in 0..Len(stdin) :
          stdin' = SubSeq(stdin, buffered + 1, Len(stdin))
    /\ serving' = Serving(serving.input)
    /\ UNCHANGED <<envVars, indexVars, stdout, holds, pc, op, result, ops, cm,
                   todo, sw, prev, now>>

InitStdio ==
    /\ \E kinds \in SeqsUpTo(RequestKinds, MaxRequests) :
          /\ stdin = InputFrom(kinds, 1)
          /\ serving = Serving(stdin)
    /\ stdout = <<>>
    /\ disk \in [Files -> {NoFile}]
    /\ envWrites = 0
    /\ dirExists = TRUE
    /\ metaJson = "ok"
    /\ committed = EmptyBag
    /\ sidecar = DefaultMetadata
    /\ lockLinked = TRUE
    /\ holds = {}
    /\ pc = [p \in Procs |-> "idle"]
    /\ op = [p \in Procs |-> None]
    /\ result = [p \in Procs |-> None]
    /\ ops = [p \in Procs |-> 0]
    /\ cm = [p \in Procs |-> DefaultMetadata]
    /\ todo = [p \in Procs |-> <<>>]
    /\ sw = [p \in Procs |-> NoSweep]
    /\ prev = NoPrev
    /\ now = 1

NextStdio == ServerReadLine \/ ServerHandle \/ ServerWrite \/ ServerExec

SpecStdio == InitStdio /\ [][NextStdio]_vars

\* the input lines the loop has taken, the last of them left out while its
\* response is not written yet
Taken ==
    SubSeq(serving.input, 1,
           Len(serving.input) - Len(stdin)
              - (IF serving.pc \in {"handle", "write"} THEN 1 ELSE 0))

NonEmpty(line) == line.text # <<>>

\* the response line is the one the line is to get
Answers(response, line) ==
    IF ~IsJsonRpcRequest(line)
    THEN response.code = PARSE_ERROR
    ELSE /\ response.id = line.id
         /\ response.code = INTERNAL_ERROR
               <=> line.kind \in {"call_missing_query", "unknown_method"}
         /\ response.code # INTERNAL_ERROR => response.code = 0

\* C23: the stdio server writes exactly one response line for every
\* non-empty input line, in input order, each before the next line is taken;
\* a line that is not a valid JSON-RPC request gets the error -32700, a
\* handler failure or unknown method the error -32603, and the server stops
\* at the end of the input only.
C23_OneResponsePerLineInOrder ==
    LET expected == SelectSeq(Taken, NonEmpty)
    IN  /\ Len(stdout) = Len(expected)
        /\ \A j \in 1..Len(stdout) :
              j <= Len(expected) => Answers(stdout[j], expected[j])
        /\ serving.pc = "exited" => stdin = <<>>

(***************************************************************************)
(* A sweep that does not reach save_metadata: the process exits, or an     *)
(* error (needs_indexing, fs::metadata, the writer) is returned with `?`   *)
(* out of update_incremental.  The commits made so far stay in the index,  *)
(* the fingerprints of the call are dropped with its CacheManager, and the *)
(* writer and the lock are released.                                       *)
(***************************************************************************)
\* the files the call has committed records of
CommittedFiles(s) == {f \in s.parsed \ s.failed : Len(ParseFile(disk[f])) > 0}

SweepAbort(p) ==
    /\ pc[p] = "sweep"
    /\ pc' = [pc EXCEPT ![p] = "idle"]
    /\ result' = [result EXCEPT ![p] = "aborted"]
    /\ holds' = Released(holds, p)
    /\ todo' = [todo EXCEPT ![p] = <<>>]
    /\ sw' = [sw EXCEPT ![p] =
                [NoSweep EXCEPT !.aborted = [files |-> sw[p].files,
                                             indexed |-> CommittedFiles(sw[p])]]]
    /\ prev' = NoPrev
    /\ UNCHANGED <<envVars, stdioVars, indexVars, op, ops, cm, now>>

\* log files at rest: f1 holds one session or records of two sessions, f2
\* is absent or holds a session whose id starts as that of f1's
AbortCorpora ==
    {[f \in Files |-> IF f = "f1" THEN LogFile(k1, TRUE) ELSE f2] :
        k1 \in {K2, K4}, f2 \in {NoFile, LogFile(K3, TRUE)}}

InitAbort ==
    /\ disk \in AbortCorpora
    /\ envWrites = MaxEnvWrites
    /\ dirExists = FALSE
    /\ metaJson = None
    /\ committed = EmptyBag
    /\ sidecar = NoSidecar
    /\ lockLinked = FALSE
    /\ holds = {}
    /\ pc = [p \in Procs |-> "idle"]
    /\ op = [p \in Procs |-> None]
    /\ result = [p \in Procs |-> None]
    /\ ops = [p \in Procs |-> 0]
    /\ cm = [p \in Procs |-> DefaultMetadata]
    /\ todo = [p \in Procs |-> <<>>]
    /\ sw = [p \in Procs |-> NoSweep]
    /\ prev = NoPrev
    /\ now = 0
    /\ NoStdio

NextAbort == IndexStep("p1") \/ SweepAbort("p1")

SpecAbort == InitAbort /\ [][NextAbort]_vars

\* the step is the end of a call that saves the sidecar, and the call before
\* it was given the same files and was aborted after it had committed some
SucceedsAborted(p) ==
    /\ EndStep(p)
    /\ result'[p] # "aborted"
    /\ sw[p].aborted.indexed # {}
    /\ sw[p].aborted.files = sw[p].files

\* C24: when a sweep is aborted after it committed some files and before it
\* saved the sidecar, then after the next successful sweep over the same
\* files the index holds each record of each of those files exactly once.
C24_AbortedSweepRepaired ==
    [][\A p \in Procs :
         SucceedsAborted(p) =>
            \A f \in sw[p].aborted.indexed :
               LET entries == ParseFile(disk[f])
               IN  \A i \in 1..Len(entries) : CopiesIn(entries[i], committed') = 1]_vars

\* cli/index.rs rebuild: clear_cache, then update_incremental over the files
\* glob finds, on an empty index and a default CacheMetadata
Rebuilt(d) ==
    FreshSweep(d, Glob(d), 1,
               [docs |-> EmptyBag, indexed_files |-> <<>>, total_entries |-> 0])

\* the fingerprints agree in size, mtime and entry_count
SameFingerprints(m1, m2) ==
    /\ DOMAIN m1 = DOMAIN m2
    /\ \A f \in DOMAIN m1 :
          /\ m1[f].size = m2[f].size
          /\ m1[f].modified = m2[f].modified
          /\ m1[f].entry_count = m2[f].entry_count

\* C25: an index kept up to date by incremental sweeps (through any history
\* of writes, rewrites and re-indexing) holds, at the end of a sweep over
\* the files on disk, the records and the sidecar content (fingerprints'
\* size, mtime and entry_count, and total_entries) that clear() followed by
\* update_incremental over the files now on disk yields.
C25_IncrementalEqualsRebuild ==
    [][\A p \in Procs :
         (EndStep(p) /\ FullSweep(p) /\ sw[p].clean /\ sw[p].files = Glob(disk))
            => LET fresh == Rebuilt(disk)
               IN  /\ committed' = fresh.docs
                   /\ SameFingerprints(sidecar'.indexed_files, fresh.indexed_files)
                   /\ sidecar'.total_entries = fresh.total_entries]_vars

OneSession(f) ==
    LET entries == ParseFile(disk[f])
    IN  \A i \in 1..Len(entries) : entries[i].session_id = entries[1].session_id

FileSession(f) ==
    LET entries == ParseFile(disk[f])
    IN  IF Len(entries) > 0 THEN entries[1].session_id ELSE FileStem(f)

\* the fingerprint the sidecar has of the file is that of the file on disk
FingerprintCurrent(metadata, f) ==
    /\ disk[f] # NoFile
    /\ disk[f].readable
    /\ f \in DOMAIN metadata.indexed_files
    /\ ~NeedsIndexing(metadata, f, disk[f])

\* C27: after any completed sweep (also the one auto-index runs after it
\* removed an index of another schema, and one that re-indexes a file whose
\* new content yields no record), for every file whose fingerprint is
\* current the index records of the file's session are exactly the records
\* parse_file yields for the file's current content.
C27_CurrentFingerprintMeansIndexed ==
    [][\A p \in Procs :
         (EndStep(p) /\ sw[p].clean) =>
            \A f \in Files :
               (FingerprintCurrent(sidecar', f) /\ OneSession(f)) =>
                  LET entries == ParseFile(disk[f])
                      docs == OfSession(committed', FileSession(f))
                  IN  /\ docs = {entries[i] : i \in 1..Len(entries)}
                      /\ \A d \in docs : CopiesIn(d, committed') = Occurrences(entries, d)]_vars

(***************************************************************************)
(* vacuum on an existing index that no other process has locked.           *)
(***************************************************************************)
\* no process but p holds a lock on index.lock
OnlyHolder(p) == \A x \in holds : x.kind = "index" => x.p = p

\* C28: when vacuum, holding the exclusive lock on an existing index that no
\* other process has locked, calls rebuild, rebuild's acquisition of the
\* exclusive lock through its new handle succeeds and rebuild goes on to clear
\* and re-index: it does not fail on the lock vacuum itself is holding.
C28_VacuumNestedLockSucceeds ==
    [][\A p \in Procs :
         (/\ pc[p] = "vac_rebuild"
          /\ pc'[p] # "vac_rebuild"
          /\ dirExists
          /\ metaJson = "ok"
          /\ OnlyHolder(p)) => /\ pc'[p] = "rb_clear"
                               /\ result'[p] # "lock_error"]_vars

(***************************************************************************)
(* The rolling total_entries counter against the fingerprints.             *)
(***************************************************************************)
RECURSIVE SumEntryCount(_, _)
SumEntryCount(indexed_files, fs) ==
    IF fs = {} THEN 0
    ELSE LET f == CHOOSE x \in fs : TRUE
         IN  indexed_files[f].entry_count + SumEntryCount(indexed_files, fs \ {f})

\* C29: after any sequence of sweeps (first indexing, re-indexing of
\* modified files, deleted files) the total_entries the sidecar holds is the
\* sum of entry_count over the fingerprints the sidecar holds.
C29_TotalEntriesIsSumOfFingerprints ==
    sidecar # NoSidecar =>
        sidecar.total_entries =
            SumEntryCount(sidecar.indexed_files, DOMAIN sidecar.indexed_files)

\* the displayable records of a session in the index
DisplayableOf(docs, s) == {d \in OfSession(docs, s) : IsDisplayable(d)}

\* C30: a client that reads a session with get_session_messages in
\* offset/limit mode, with any page size the tool accepts, from offset 0 and
\* then from the offset of each "+more: offset=N" trailer, ends after
\* finitely many calls (every trailer announces an offset beyond the one the
\* call was made with, and offsets never exceed the number of messages) and
\* has then read every displayable message of the session exactly once, in
\* ascending sequence_num order.
C30_PagingReadsSessionOnce ==
    \A p \in Procs :
       (/\ op[p] = "paging"
        /\ result[p].session_id \in SessionIds
        /\ ~result[p].is_error)
       => LET r == result[p]
              all == DisplayableOf(committed, r.session_id)
          IN  /\ \A n \in r.more : n > ArgOr(r.offset, 0)
              /\ r.more = {} =>
                    /\ {r.read[i] : i \in 1..Len(r.read)} = all
                    /\ \A d \in all : Occurrences(r.read, d) = CopiesIn(d, committed)
                    /\ \A i, j \in 1..Len(r.read) :
                          i < j => r.read[i].sequence_num <= r.read[j].sequence_num

====
